---- MODULE Spec2Model ----
(***************************************************************************)
(* SourceSense: the GitHub metadata extraction pipeline.                   *)
(*                                                                         *)
(* One workflow run (src/app/workflow.py) drives five activities           *)
(* (src/app/activities.py and the handler/client they call):               *)
(*   get_workflow_args -> preflight_check -> fetch_repositories            *)
(*   -> transform_data -> upload_to_atlan                                  *)
(*                                                                         *)
(* Python values are modelled as tagged records, dictionaries as total     *)
(* functions over the keys the code touches with Absent marking a missing  *)
(* key, strings the code inspects character by character (Text, and the    *)
(* error messages) as sequences of one-character strings, paths and URLs   *)
(* as sequences of segments.                                               *)
(*                                                                         *)
(* Spec is one run of the workflow. The other specifications start where   *)
(* one part of it begins and draw that part's inputs from bounded sets:    *)
(* SpecFlatten (the flatten step), SpecRetry (fetch_repositories invoked   *)
(* repeatedly), SpecTransform (transform_data on any staging location),    *)
(* SpecNormalize (the transformer on any batch) and SpecLoad (the load of  *)
(* the handler and the client). SpecLive is Spec under weak fairness with  *)
(* a server that never runs out of pages; SpecRuns interleaves the stages  *)
(* of two runs over one disk and one object store.                         *)
(***************************************************************************)
EXTENDS Integers, Sequences, FiniteSets, TLC

VARIABLES
    wf_pc,            \* position of SourceSenseWorkflow.run
    stage,            \* per activity: "idle", "running", "returned", "raised"
    starts,           \* per activity: how often the run has started it
    act_pc,           \* position inside the activity that is executing
    workflow_config,  \* the argument of run / get_workflow_args
    workflow_args,    \* the workflow's workflow_args dictionary
    attempt,          \* get_workflow_args: loop variable
    reads,            \* get_workflow_args: StateStore.get_state calls made
    sleeps,           \* get_workflow_args: asyncio.sleep calls made
    slept_seconds,    \* get_workflow_args: total seconds slept
    last_read,        \* get_workflow_args: how the latest get_state call ended
    last_error,       \* the exception an activity raised last (NoError if none)
    http_calls,       \* HTTP GET requests made so far in the run
    url,              \* get_paginated_results: url
    all_results,      \* get_paginated_results: all_results
    requested,        \* the client's latest call: the URLs requested, in order
    responses,        \* the client's latest call: the responses received
    page_failed,      \* whether a page request of the current fetch failed
    raw_data_list,    \* fetch_repositories: raw_data_list
    flattened_data,   \* fetch_repositories: flattened_data
    files,            \* the files under <output_path>/raw/REPOSITORY
    dir_exists,       \* whether output_path exists on disk
    written_by,       \* per file: the fetch_repositories invocation it is from
    fetch_result,     \* what fetch_repositories returned
    transform_stats,  \* what transform_data returned
    transform_kwargs, \* transform_data: transform_kwargs
    entities,         \* the entities transform_data wrote for publishing
    upload_stats,     \* upload_to_atlan: upload_stats
    upload_result,    \* what upload_to_atlan returned
    handler_config,   \* GitHubHandler.load: config
    client_credentials, \* GitHubClient.load: kwargs["credentials"] it was given
    http_headers,     \* GitHubClient: self.http_headers
    transformed_output, \* transform_data: transformed_output (the JsonOutput)
    migration_prefix, \* upload_to_atlan: migration_prefix
    runs,             \* concurrent runs: the state of each run
    tree,             \* concurrent runs: the staging directories on disk
    object_store      \* concurrent runs: what is staged under each prefix

vars == <<wf_pc, stage, starts, act_pc, workflow_config, workflow_args,
          attempt, reads, sleeps, slept_seconds, last_read, last_error,
          http_calls,
          url, all_results, requested, responses, page_failed, raw_data_list,
          flattened_data, files, dir_exists, written_by, fetch_result,
          transform_stats, transform_kwargs, entities, upload_stats,
          upload_result, handler_config, client_credentials, http_headers,
          transformed_output, migration_prefix, runs, tree, object_store>>

-----------------------------------------------------------------------------
(* Bounds of the model *)

\* The server serves at most this many pages to one paginated fetch.
MaxPages == 3

\* The flatten specification draws raw lists of at most this many records.
MaxRaw == 1

\* The execution engine invokes fetch_repositories at most this many times.
MaxInvocations == 2

\* The normalization specification draws dataframes of at most this many
\* rows.
MaxBatch == 2

-----------------------------------------------------------------------------
(* Python values *)

Absent == [t |-> "absent"]
Null == [t |-> "null"]
Str(s) == [t |-> "str", s |-> s]
Text(cs) == [t |-> "text", cs |-> cs]
Path(p) == [t |-> "path", p |-> p]
Dict(d) == [t |-> "dict", d |-> d]
IntVal(n) == [t |-> "int", n |-> n]
Bool(b) == [t |-> "bool", b |-> b]

IsDict(v) == v.t = "dict"

\* `k in d`
Has(d, k) == d[k] # Absent

\* d.get(k, default)
Get(d, k, default) == IF Has(d, k) THEN d[k] ELSE default

\* d.get(k): the default is None
GetOrNone(d, k) == Get(d, k, Null)

\* d[k] = v
SetKey(d, k, v) == [d EXCEPT ![k] = v]

\* del d[k]
DelKey(d, k) == [d EXCEPT ![k] = Absent]

\* Python truthiness of a value (`if x:` / `if not x:`)
Truthy(v) ==
    CASE v.t = "absent" -> FALSE
      [] v.t = "null" -> FALSE
      [] v.t = "str" -> v.s # ""
      [] v.t = "text" -> v.cs # <<>>
      [] v.t = "path" -> v.p # <<>>
      [] v.t = "int" -> v.n # 0
      [] v.t = "bool" -> v.b
      [] v.t = "dict" -> \E k \in DOMAIN v.d : v.d[k] # Absent
      [] OTHER -> TRUE

\* os.path.join of two relative paths
PathJoin(p, q) == p \o q

\* path lies under prefix
IsUnder(path, prefix) ==
    /\ Len(prefix.p) < Len(path.p)
    /\ SubSeq(path.p, 1, Len(prefix.p)) = prefix.p

-----------------------------------------------------------------------------
(* Error messages and the "not found" classification of get_workflow_args *)

Msg_StateNotFound ==
    <<"S","t","a","t","e"," ","n","o","t"," ","f","o","u","n","d">>
Msg_UpperNotFound ==
    <<"4","0","4"," ","N","O","T"," ","F","O","U","N","D">>
Msg_Timeout ==
    <<"t","i","m","e","d"," ","o","u","t">>
Msg_NotAuthorized ==
    <<"n","o","t"," ","a","u","t","h","o","r","i","z","e","d">>
Msg_FoundNothing ==
    <<"f","o","u","n","d"," ","n","o","t","h","i","n","g">>

\* The messages of the exceptions StateStore.get_state raises in the model.
ErrorMessages ==
    {Msg_StateNotFound, Msg_UpperNotFound, Msg_Timeout, Msg_NotAuthorized,
     Msg_FoundNothing}

\* str.lower() on one character
LowerChar(c) ==
    CASE c = "S" -> "s" [] c = "N" -> "n" [] c = "O" -> "o" [] c = "T" -> "t"
      [] c = "F" -> "f" [] c = "U" -> "u" [] c = "D" -> "d"
      [] OTHER -> c

\* str.lower()
Lower(s) == [i \in 1..Len(s) |-> LowerChar(s[i])]

\* `sub in s` for strings
Contains(s, sub) ==
    \E i \in 0..(Len(s) - Len(sub)) :
        \A j \in 1..Len(sub) : s[i + j] = sub[j]

NotFoundText == <<"n","o","t"," ","f","o","u","n","d">>

\* always-retry variant: every error is taken for "not found"
IsNotFound_Always(msg) == TRUE

\* "not found" in str(e).lower()
IsNotFound(msg) == Contains(Lower(msg), NotFoundText)

NoError == [stage |-> "none", kind |-> "none", msg |-> <<>>]

\* How a StateStore.get_state call ended.
NoRead == [outcome |-> "none", msg |-> <<>>, stored |-> Null]
ReadReturned(stored) == [outcome |-> "returned", msg |-> <<>>, stored |-> stored]
ReadRaised(msg) == [outcome |-> "raised", msg |-> msg, stored |-> Null]
Error(s, kind, msg) == [stage |-> s, kind |-> kind, msg |-> msg]

-----------------------------------------------------------------------------
(* The run's inputs: workflow_config and the stored configuration *)

Activities ==
    <<"get_workflow_args", "preflight_check", "fetch_repositories",
      "transform_data", "upload_to_atlan">>

ActivityNames == {Activities[i] : i \in 1..Len(Activities)}

\* for attempt in range(max_retries)
max_retries == 5

\* await asyncio.sleep(retry_delay_seconds)
retry_delay_seconds == 2

\* application_sdk.constants.TEMPORARY_PATH
TEMPORARY_PATH == Path(<<"local", "tmp">>)

\* get_workflow_id(): the id the execution engine gave the run
EngineWorkflowId == Str("wf-engine")

\* get_workflow_run_id()
EngineRunId == Str("run-1")

\* The workflow_config values a run is started with.
WorkflowConfigs ==
    {[workflow_id |-> Absent], [workflow_id |-> Str("wf-cfg")],
     [workflow_id |-> Str("")]}

Metadata(owner) == Dict([owner |-> owner])

StoredConfig(prefix, metadata) ==
    [workflow_id |-> Absent, workflow_run_id |-> Absent,
     output_prefix |-> prefix, output_path |-> Absent,
     metadata |-> metadata, local_parquet_path |-> Absent,
     connection_name |-> Absent, connection_qualified_name |-> Absent]

\* The configurations the state store may hold for a workflow id.
StoredConfigs ==
    {StoredConfig(Absent, Metadata(Str("octocat"))),
     StoredConfig(Path(<<"data">>), Metadata(Str("octocat"))),
     StoredConfig(Absent, Metadata(Str(""))),
     StoredConfig(Absent, Metadata(Absent)),
     StoredConfig(Absent, Absent)}

\* The workflow's workflow_args before get_workflow_args has returned.
NoArgs == StoredConfig(Absent, Absent)

\* workflow_config.get("workflow_id", get_workflow_id())
ResolveWorkflowId(config) == Get(config, "workflow_id", EngineWorkflowId)

\* build_output_path(): a relative path made of the run's identifiers
build_output_path(workflow_id) ==
    <<"artifacts", workflow_id.s, EngineRunId.s>>

\* output_path is the bare build_output_path(), not joined to the prefix
AugmentArgs_PathOutsidePrefix(stored, workflow_id) ==
    LET a1 == SetKey(stored, "output_prefix",
                     Get(stored, "output_prefix", TEMPORARY_PATH))
        a2 == SetKey(a1, "output_path", Path(build_output_path(workflow_id)))
        a3 == SetKey(a2, "workflow_id", workflow_id)
    IN  SetKey(a3, "workflow_run_id", EngineRunId)

\* The augmentation of the stored configuration on a successful read.
AugmentArgs(stored, workflow_id) ==
    LET a1 == SetKey(stored, "output_prefix",
                     Get(stored, "output_prefix", TEMPORARY_PATH))
        a2 == SetKey(a1, "output_path",
                     Path(PathJoin(a1["output_prefix"].p,
                                   build_output_path(workflow_id))))
        a3 == SetKey(a2, "workflow_id", workflow_id)
    IN  SetKey(a3, "workflow_run_id", EngineRunId)

\* sleeps after every "not found", the last attempt included
ShouldSleep_Always(n) == TRUE

\* if attempt < max_retries - 1: sleep, else: raise
ShouldSleep(n) == n < max_retries - 1

-----------------------------------------------------------------------------
(* SourceSenseWorkflow.run *)

\* the await returns although the activity is still running
Proceeds_NoAwait(s) == stage[s] \in {"running", "returned"}

\* the await returns although the activity raised
Proceeds_Swallow(s) == stage[s] \in {"returned", "raised"}

\* `await workflow.execute_activity_method(s, ...)` returns normally
Proceeds(s) == stage[s] = "returned"

\* workflow.execute_activity_method(s, ...): the activity starts executing
StartActivity(s, entry) ==
    /\ wf_pc' = s
    /\ stage' = [stage EXCEPT ![s] = "running"]
    /\ starts' = [starts EXCEPT ![s] = @ + 1]
    /\ act_pc' = entry

\* An activity returns normally.
Return(s) ==
    /\ stage' = [stage EXCEPT ![s] = "returned"]
    /\ act_pc' = "idle"
    /\ last_error' = last_error

\* An activity raises.
Raise(s, kind, msg) ==
    /\ stage' = [stage EXCEPT ![s] = "raised"]
    /\ act_pc' = "idle"
    /\ last_error' = Error(s, kind, msg)

gwa_locals == <<attempt, reads, sleeps, slept_seconds, last_read>>
client_locals == <<url, all_results, requested, responses, page_failed>>
fetch_locals == <<raw_data_list, flattened_data>>
disk == <<files, dir_exists, written_by>>
outputs == <<fetch_result, transform_stats, entities, upload_result>>
load_state == <<handler_config, client_credentials, http_headers>>
publish_locals == <<transformed_output, migration_prefix>>
concurrent_runs == <<runs, tree, object_store>>

\* workflow.py line 40: the run starts get_workflow_args.
WfStartResolve ==
    /\ wf_pc = "begin"
    /\ StartActivity("get_workflow_args", "gwa_entry")
    /\ UNCHANGED <<workflow_config, workflow_args, gwa_locals, last_error,
                   http_calls, client_locals, fetch_locals, disk, outputs,
                   transform_kwargs, upload_stats, load_state,
                   publish_locals, concurrent_runs>>

\* workflow.py lines 40-52: workflow_args is bound, preflight_check starts.
WfStartPreflight ==
    /\ wf_pc = "get_workflow_args"
    /\ Proceeds("get_workflow_args")
    /\ StartActivity("preflight_check", "preflight")
    /\ attempt' = 0 /\ reads' = 0 /\ sleeps' = 0 /\ slept_seconds' = 0
    /\ last_read' = NoRead
    /\ UNCHANGED <<workflow_config, workflow_args, last_error, http_calls,
                   client_locals, fetch_locals, disk, outputs,
                   transform_kwargs, upload_stats, load_state,
                   publish_locals, concurrent_runs>>

\* An exception of the awaited activity leaves run(): the run fails.
WfActivityFailed ==
    /\ wf_pc \in ActivityNames
    /\ stage[wf_pc] = "raised"
    /\ wf_pc' = "failed"
    /\ UNCHANGED <<stage, starts, act_pc, workflow_config, workflow_args,
                   gwa_locals, last_error, http_calls, client_locals,
                   fetch_locals, disk, outputs, transform_kwargs,
                   upload_stats, load_state,
                   publish_locals, concurrent_runs>>

-----------------------------------------------------------------------------
(* SourceSenseActivities.get_workflow_args *)

\* lines 53-55: workflow_id is resolved; an empty one raises before any read.
GwaEntry ==
    /\ act_pc = "gwa_entry"
    /\ IF ~Truthy(ResolveWorkflowId(workflow_config))
         THEN Raise("get_workflow_args", "ValueError", <<>>)
         ELSE /\ act_pc' = "gwa_read"
              /\ UNCHANGED <<stage, last_error>>
    /\ attempt' = 0
    /\ UNCHANGED <<wf_pc, starts, workflow_config, workflow_args, reads,
                   sleeps, slept_seconds, last_read, http_calls,
                   client_locals, fetch_locals, disk, outputs,
                   transform_kwargs, upload_stats, load_state,
                   publish_locals, concurrent_runs>>

\* lines 62-71: StateStore.get_state returned the stored configuration.
GwaReadOk ==
    /\ act_pc = "gwa_read"
    /\ \E stored \in StoredConfigs :
         /\ workflow_args' =
                AugmentArgs(stored, ResolveWorkflowId(workflow_config))
         /\ last_read' = ReadReturned(stored)
    /\ reads' = reads + 1
    /\ Return("get_workflow_args")
    /\ UNCHANGED <<wf_pc, starts, workflow_config, attempt, sleeps,
                   slept_seconds, http_calls, client_locals, fetch_locals,
                   disk, outputs, transform_kwargs, upload_stats, load_state,
                   publish_locals, concurrent_runs>>

\* lines 62, 73-85: StateStore.get_state raised; retry, or re-raise.
GwaReadFails ==
    /\ act_pc = "gwa_read"
    /\ reads' = reads + 1
    /\ \E msg \in ErrorMessages :
         /\ last_read' = ReadRaised(msg)
         /\ IF IsNotFound(msg) /\ ShouldSleep(attempt)
              THEN /\ act_pc' = "gwa_sleep"
                   /\ UNCHANGED <<stage, last_error>>
              ELSE Raise("get_workflow_args", "StateStore", msg)
    /\ UNCHANGED <<wf_pc, starts, workflow_config, workflow_args, attempt,
                   sleeps, slept_seconds, http_calls, client_locals,
                   fetch_locals, disk, outputs, transform_kwargs,
                   upload_stats, load_state,
                   publish_locals, concurrent_runs>>

\* line 79, then line 60: the sleep ends and the loop moves on; line 87 is
\* where the loop would leave once range(max_retries) is used up.
GwaSleep ==
    /\ act_pc = "gwa_sleep"
    /\ sleeps' = sleeps + 1
    /\ slept_seconds' = slept_seconds + retry_delay_seconds
    /\ attempt' = attempt + 1
    /\ IF attempt + 1 < max_retries
         THEN /\ act_pc' = "gwa_read"
              /\ UNCHANGED <<stage, last_error>>
         ELSE Raise("get_workflow_args", "Exception", <<>>)
    /\ UNCHANGED <<wf_pc, starts, workflow_config, workflow_args, reads,
                   last_read, http_calls, client_locals, fetch_locals, disk,
                   outputs, transform_kwargs, upload_stats, load_state,
                   publish_locals, concurrent_runs>>

-----------------------------------------------------------------------------
(* GitHubHandler.preflight_check and GitHubClient.check_owner_exists *)

\* What execute_http_get_request gives check_owner_exists: no response, or a
\* response with a status code.
NoResponse == [status |-> 0, items |-> <<>>, next |-> Null]
ProbeResponses == {NoResponse, [NoResponse EXCEPT !.status = 200],
                   [NoResponse EXCEPT !.status = 404]}

\* workflow_args.get("metadata", {}).get("owner")
OwnerOf(args) ==
    IF Has(args, "metadata") THEN GetOrNone(args["metadata"].d, "owner")
    ELSE Null

\* f"{self.BASE_URL}/users/{owner}"
OwnerUrl(owner) == Path(<<"https://api.github.com", "users", owner.s>>)

\* any response at all counts as "the owner exists"
check_owner_exists_AnyResponse(response) == response # NoResponse

\* response is not None and response.status_code == 200
check_owner_exists(response) == response # NoResponse /\ response.status = 200

\* handler.py lines 56-58: the owner is missing; no request is made.
PreflightNoOwner ==
    /\ act_pc = "preflight"
    /\ ~Truthy(OwnerOf(workflow_args))
    /\ Raise("preflight_check", "ValueError", <<>>)
    /\ UNCHANGED <<wf_pc, starts, workflow_config, workflow_args, gwa_locals,
                   http_calls, client_locals, fetch_locals, disk, outputs,
                   transform_kwargs, upload_stats, load_state,
                   publish_locals, concurrent_runs>>

\* handler.py lines 62-66: one request decides whether the owner exists.
PreflightProbe ==
    /\ act_pc = "preflight"
    /\ Truthy(OwnerOf(workflow_args))
    /\ http_calls' = http_calls + 1
    /\ requested' = <<OwnerUrl(OwnerOf(workflow_args))>>
    /\ \E response \in ProbeResponses :
         /\ responses' = <<response>>
         /\ IF check_owner_exists(response)
              THEN Return("preflight_check")
              ELSE Raise("preflight_check", "ConnectionError", <<>>)
    /\ UNCHANGED <<wf_pc, starts, workflow_config, workflow_args, gwa_locals,
                   url, all_results, page_failed, fetch_locals, disk, outputs,
                   transform_kwargs, upload_stats, load_state,
                   publish_locals, concurrent_runs>>

-----------------------------------------------------------------------------
(* Raw records of the source API *)

\* A repository record with the four given fields and without the other
\* fields the pipeline reads (a record may lack any of them).
Repo(name, full_name, owner, owner_login) ==
    [name |-> name, full_name |-> full_name, owner |-> owner,
     owner_login |-> owner_login, description |-> Absent,
     html_url |-> Absent, language |-> Absent, license |-> Absent,
     private |-> Absent, fork |-> Absent, stargazers_count |-> Absent,
     watchers_count |-> Absent, forks_count |-> Absent,
     open_issues_count |-> Absent]

OwnerDict(login, id) == Dict([login |-> login, id |-> id])

\* The shapes of the 'owner' field: missing, null, a string, an empty object,
\* an object without login, objects with a login (a string or null).
OwnerShapes ==
    {Absent, Null, Str("octocat"),
     OwnerDict(Absent, Absent), OwnerDict(Absent, IntVal(7)),
     OwnerDict(Str("octocat"), Absent), OwnerDict(Str("hubot"), IntVal(7)),
     OwnerDict(Null, IntVal(7))}

\* The 'license' object of a record of the source API.
LicenseDict == Dict([key |-> Str("mit"), name |-> Str("MIT License")])

\* The raw records the flatten specification draws from.
RawRecords ==
    {[Repo(n, f, o, l) EXCEPT !.license = lic] :
        n \in {Absent, Text(<<"h", "i">>)},
        f \in {Absent, Null, Str("octocat/hello")},
        o \in OwnerShapes,
        l \in {Absent, Str("stale")},
        lic \in {Absent, Null, LicenseDict}}

\* The raw records the server serves in a run.
RepoHello ==
    [Repo(Text(<<"h", "i">>), Str("octocat/hello"),
          OwnerDict(Str("octocat"), IntVal(7)), Absent)
     EXCEPT !.description = Text(<<"c", "a", "f", "U+00E9">>),
            !.html_url = Text(<<"h", "U+2713">>),
            !.language = Str("Python"),
            !.license = LicenseDict,
            !.private = Bool(FALSE), !.fork = Bool(TRUE),
            !.stargazers_count = IntVal(5), !.watchers_count = IntVal(5),
            !.forks_count = IntVal(0), !.open_issues_count = IntVal(2)]
RepoWorld == Repo(Text(<<"y", "o">>), Str("octocat/world"), Absent, Absent)
RepoNameless == Repo(Absent, Null, Str("octocat"), Absent)

\* The bodies (response.json()) of the pages the server serves.
PageBodies ==
    {<<>>, <<RepoHello>>, <<RepoNameless>>, <<RepoWorld, RepoHello>>}

-----------------------------------------------------------------------------
(* GitHubClient.get_repositories / get_paginated_results *)

BASE_URL == "https://api.github.com"

\* f"{self.BASE_URL}/users/{owner}/repos"
RepositoriesUrl(owner) == Path(<<BASE_URL, "users", owner.s, "repos">>)

\* The URLs the server names in a 'next' link (response.links["next"]["url"]
\* of a response that has one is a non-empty URL).
NextLinks ==
    {Path(<<BASE_URL, "user", "1", "repos?page=2">>),
     Path(<<BASE_URL, "user", "1", "repos?page=3">>)}

\* The responses to a page request; the server names a next page only while
\* it has pages left.
PageResponses(served) ==
    {[status |-> 200, items |-> b, next |-> n] :
        b \in PageBodies,
        n \in (IF served + 1 < MaxPages THEN NextLinks ELSE {}) \cup {Null}}
    \cup {NoResponse, [NoResponse EXCEPT !.status = 500]}

\* not response or response.status_code != 200
PageFailed(response) == response = NoResponse \/ response.status # 200

\* the page's items replace what was accumulated
Extend_Replace(results, items) == items

\* all_results.extend(response.json())
Extend(results, items) == results \o items

\* response.links.get("next", {}).get("url")
NextUrl(response) == response.next

\* the output of an earlier attempt is left where it is
OutputLeftOver_Ignored(output_path) == FALSE

\* if output_path and os.path.exists(output_path)
OutputLeftOver(output_path) == Truthy(output_path) /\ dir_exists

\* activities.py lines 96-112, handler.py line 73, client.py lines 65, 42:
\* (the handler of the activity state is there) the output directory of an
\* earlier attempt is removed, then the paginated fetch begins at the
\* repositories URL of the owner.
FetchEntry ==
    /\ act_pc = "fetch_entry"
    /\ IF OutputLeftOver(GetOrNone(workflow_args, "output_path"))
         THEN /\ files' = [f \in DOMAIN files |-> [kind |-> "none"]]
              /\ dir_exists' = FALSE
              /\ written_by' = [f \in DOMAIN files |-> 0]
         ELSE UNCHANGED <<files, dir_exists, written_by>>
    /\ url' = RepositoriesUrl(OwnerOf(workflow_args))
    /\ all_results' = <<>>
    /\ requested' = <<>>
    /\ responses' = <<>>
    /\ page_failed' = FALSE
    /\ act_pc' = "fetch_page"
    /\ UNCHANGED <<wf_pc, stage, starts, workflow_config, workflow_args,
                   gwa_locals, last_error, http_calls, fetch_locals, outputs,
                   transform_kwargs, upload_stats, load_state,
                   publish_locals, concurrent_runs>>

\* client.py lines 43-53: one turn of `while url`, up to the return of
\* all_results to fetch_repositories when the loop ends.
RequestPage ==
    /\ act_pc = "fetch_page"
    /\ Truthy(url)
    /\ \E response \in PageResponses(Len(requested)) :
         /\ requested' = Append(requested, url)
         /\ responses' = Append(responses, response)
         /\ page_failed' = PageFailed(response)
         /\ IF PageFailed(response)
              THEN /\ UNCHANGED <<url, all_results>>
                   /\ act_pc' = "fetch_flatten"
                   /\ raw_data_list' = all_results
              ELSE /\ all_results' = Extend(all_results, response.items)
                   /\ url' = NextUrl(response)
                   /\ IF Truthy(url')
                        THEN /\ act_pc' = "fetch_page"
                             /\ UNCHANGED raw_data_list
                        ELSE /\ act_pc' = "fetch_flatten"
                             /\ raw_data_list' = all_results'
    /\ http_calls' = http_calls + 1
    /\ UNCHANGED <<wf_pc, stage, starts, workflow_config, workflow_args,
                   gwa_locals, last_error, flattened_data, disk, outputs,
                   transform_kwargs, upload_stats, load_state,
                   publish_locals, concurrent_runs>>

-----------------------------------------------------------------------------
(* fetch_repositories: the flatten step *)

\* `del flat_repo['owner']` left out: the raw owner stays under 'owner'
FlattenRepo_KeepOwner(repo) ==
    SetKey(repo, "owner_login",
           IF Has(repo, "owner") /\ IsDict(repo["owner"])
             THEN GetOrNone(repo["owner"].d, "login") ELSE Null)

\* activities.py lines 122-130: one record of the loop
FlattenRepo(repo) ==
    LET flat_repo == repo
    IN  IF Has(flat_repo, "owner") /\ IsDict(flat_repo["owner"])
          THEN LET owner_dict == flat_repo["owner"].d
                   with_login ==
                       SetKey(flat_repo, "owner_login",
                              IF Has(owner_dict, "login")
                                THEN owner_dict["login"] ELSE Null)
               IN  DelKey(with_login, "owner")
          ELSE LET with_login == SetKey(flat_repo, "owner_login", Null)
               IN  IF Has(with_login, "owner")
                     THEN DelKey(with_login, "owner") ELSE with_login

\* activities.py lines 120-131: the loop over raw_data_list
FlattenAll(raw) == [i \in 1..Len(raw) |-> FlattenRepo(raw[i])]

\* flat_repo = repo: the loop rewrites the records of raw_data_list in place
RawListAfterFlatten_NoCopy(raw) == FlattenAll(raw)

\* flat_repo = repo.copy(): raw_data_list is what it was before the loop
RawListAfterFlatten(raw) == raw

\* the empty list is processed like any other
NothingFetched_Never(raw) == FALSE

\* if not raw_data_list
NothingFetched(raw) == raw = <<>>

\* activities.py lines 110-139: the client's list is bound to raw_data_list
\* (the locals of the client call are gone); nothing fetched returns None,
\* otherwise the records are flattened.
FetchFlatten ==
    /\ act_pc = "fetch_flatten"
    /\ IF NothingFetched(raw_data_list)
         THEN /\ fetch_result' = Null
              /\ Return("fetch_repositories")
              /\ UNCHANGED fetch_locals
         ELSE /\ flattened_data' = FlattenAll(raw_data_list)
              /\ raw_data_list' = RawListAfterFlatten(raw_data_list)
              /\ act_pc' = "fetch_write"
              /\ UNCHANGED <<stage, last_error, fetch_result>>
    /\ url' = Null /\ all_results' = <<>>
    /\ requested' = <<>> /\ responses' = <<>>
    /\ UNCHANGED <<wf_pc, starts, workflow_config, workflow_args, gwa_locals,
                   http_calls, page_failed, disk, transform_stats, entities, upload_result,
                   transform_kwargs, upload_stats, load_state,
                   publish_locals, concurrent_runs>>

-----------------------------------------------------------------------------
(* fetch_repositories: writing the staged dataset *)

PrimaryFile == "repositories.parquet"

\* f"repositories_{get_workflow_run_id()}.parquet"
AlternativeFile == "repositories_run-1.parquet"

NoFile == [kind |-> "none"]
ZeroBytes == [kind |-> "zero"]
Partial == [kind |-> "partial"]
Parquet(rows) == [kind |-> "parquet", rows |-> rows]

EmptyDir == [f \in {PrimaryFile, AlternativeFile} |-> NoFile]

\* No file is from any invocation.
NotWritten == [f \in {PrimaryFile, AlternativeFile} |-> 0]

RepoKeys == DOMAIN Repo(Absent, Absent, Absent, Absent)

\* daft.from_pylist: the columns are the keys some record has; a record
\* without a column's key holds null in that column.
ToColumnar(records) ==
    LET columns ==
            {k \in RepoKeys : \E i \in 1..Len(records) : Has(records[i], k)}
    IN  [i \in 1..Len(records) |->
            [k \in RepoKeys |->
                IF k \in columns /\ ~Has(records[i], k) THEN Null
                ELSE records[i][k]]]

\* What pandas_df.to_parquet(parquet_file_path) may do.
PrimaryWrites == {"written", "raises", "raises_partial", "missing", "zero"}

\* What pandas_df.to_parquet(alternative_path) may do.
AlternativeWrites == {"written", "raises", "missing", "zero"}

\* What a write leaves at the file's path: a write that raised before it
\* created the file, or returned without writing, leaves what was there.
FileAfter(before, w, rows) ==
    CASE w = "written" -> Parquet(rows)
      [] w = "zero" -> ZeroBytes
      [] w = "raises_partial" -> Partial
      [] OTHER -> before

\* The write touched the file's path.
Wrote(w) == w \in {"written", "zero", "raises_partial"}

\* lines 166-176: to_parquet returned, the file exists and is not empty
PrimaryOk(w, file) ==
    w \notin {"raises", "raises_partial"} /\ file.kind \notin {"none", "zero"}

\* lines 190-198: to_parquet returned and the file exists
AlternativeOk(w, file) == w # "raises" /\ file.kind # "none"

\* os.path.join(output_path, "raw", "REPOSITORY")
RawDataPath(output_path) == Path(PathJoin(output_path.p, <<"raw", "REPOSITORY">>))

ActivityStatistics(count, chunks, typename) ==
    [t |-> "stats", total_record_count |-> count, chunk_count |-> chunks,
     typename |-> typename]

\* activities.py lines 139-210: the dataframe is written under
\* <output_path>/raw/REPOSITORY, to repositories.parquet or, when that fails,
\* to the alternative file; the statistics and the directory are returned.
FetchWrite ==
    /\ act_pc = "fetch_write"
    /\ LET output_path == GetOrNone(workflow_args, "output_path")
           rows == ToColumnar(flattened_data)
       IN  IF ~Truthy(output_path)
             THEN /\ Raise("fetch_repositories", "ValueError", <<>>)
                  /\ UNCHANGED <<disk, fetch_result>>
             ELSE \E w1 \in PrimaryWrites, w2 \in AlternativeWrites :
                    LET primary == FileAfter(files[PrimaryFile], w1, rows)
                        alternative ==
                            FileAfter(files[AlternativeFile], w2, rows)
                        invocation == starts["fetch_repositories"]
                        result ==
                            Dict([stats |-> ActivityStatistics(
                                      Len(rows), 1, "REPOSITORY"),
                                  local_path |-> RawDataPath(output_path)])
                    IN  /\ dir_exists' = TRUE
                        /\ IF PrimaryOk(w1, primary)
                             THEN /\ files' = [files EXCEPT
                                        ![PrimaryFile] = primary]
                                  /\ written_by' = [written_by EXCEPT
                                        ![PrimaryFile] =
                                            IF Wrote(w1) THEN invocation
                                            ELSE @]
                                  /\ fetch_result' = result
                                  /\ Return("fetch_repositories")
                             ELSE /\ files' = [files EXCEPT
                                        ![PrimaryFile] = primary,
                                        ![AlternativeFile] = alternative]
                                  /\ written_by' = [written_by EXCEPT
                                        ![PrimaryFile] =
                                            IF Wrote(w1) THEN invocation
                                            ELSE @,
                                        ![AlternativeFile] =
                                            IF Wrote(w2) THEN invocation
                                            ELSE @]
                                  /\ IF AlternativeOk(w2, alternative)
                                       THEN /\ fetch_result' = result
                                            /\ Return("fetch_repositories")
                                       ELSE /\ Raise("fetch_repositories",
                                                     "WriteError", <<>>)
                                            /\ UNCHANGED fetch_result
    /\ UNCHANGED <<wf_pc, starts, workflow_config, workflow_args, gwa_locals,
                   http_calls, client_locals, fetch_locals, transform_stats,
                   entities, upload_result, transform_kwargs, upload_stats,
                   load_state,
                   publish_locals, concurrent_runs>>

-----------------------------------------------------------------------------
(* GitHubRepository.get_attributes and GitHubTransformer.transform_row *)

\* The outcome of a call that raised.
Raises == [t |-> "raises"]

DefaultConnectionName == Str("github-default")
DefaultConnectionQualifiedName == Path(<<"default", "github", "connection">>)

\* `v or default`
OrDefault(v, default) == IF Truthy(v) THEN v ELSE default

\* Characters outside ASCII, named by their code points.
NonAsciiChars == {"U+00E9", "U+2713"}

\* text.encode('ascii', 'ignore').decode('ascii')
StripNonAscii(cs) == SelectSeq(cs, LAMBDA c : c \notin NonAsciiChars)

\* transformer.py lines 33-39
clean_text(text) ==
    IF ~Truthy(text) THEN text
    ELSE IF text.t = "text" THEN Text(StripNonAscii(text.cs))
    ELSE text

\* application_sdk build_atlas_qualified_name(connection_qualified_name, arg):
\* the two joined by "/"; an empty or null part raises.
build_atlas_qualified_name(connection_qualified_name, arg) ==
    IF ~Truthy(connection_qualified_name) \/ ~Truthy(arg) THEN Raises
    ELSE Path(connection_qualified_name.p \o <<arg.s>>)

\* obj.get("owner", {}).get("login")
GithubOwner(obj) ==
    IF ~Has(obj, "owner") THEN Null
    ELSE IF IsDict(obj["owner"]) THEN GetOrNone(obj["owner"].d, "login")
    ELSE Raises

\* transformer.py lines 53-62: custom_attributes
CustomAttributes(obj, github_owner) ==
    [github_owner |-> github_owner,
     github_is_private |-> Get(obj, "private", Bool(FALSE)),
     github_is_fork |-> Get(obj, "fork", Bool(FALSE)),
     github_stargazers_count |-> Get(obj, "stargazers_count", IntVal(0)),
     github_watchers_count |-> Get(obj, "watchers_count", IntVal(0)),
     github_forks_count |-> Get(obj, "forks_count", IntVal(0)),
     github_open_issues_count |-> Get(obj, "open_issues_count", IntVal(0)),
     github_language |-> clean_text(GetOrNone(obj, "language"))]

\* the qualified name is built under the default connection, whatever the
\* connection of the record
get_attributes_DefaultConnection(obj, connection_qualified_name) ==
    LET qualifiedName ==
            build_atlas_qualified_name(DefaultConnectionQualifiedName,
                                       Get(obj, "full_name", Str("")))
    IN  IF qualifiedName = Raises \/ GithubOwner(obj) = Raises THEN Raises
        ELSE [attributes |->
                  [name |-> clean_text(GetOrNone(obj, "name")),
                   qualifiedName |-> qualifiedName,
                   connectionQualifiedName |-> connection_qualified_name,
                   description |-> clean_text(GetOrNone(obj, "description")),
                   sourceUrl |-> GetOrNone(obj, "html_url")],
              custom_attributes |-> CustomAttributes(obj, GithubOwner(obj))]

\* transformer.py lines 30-67, for the keys of the model's records
get_attributes(obj, connection_qualified_name) ==
    LET qualifiedName ==
            build_atlas_qualified_name(connection_qualified_name,
                                       Get(obj, "full_name", Str("")))
        github_owner == GithubOwner(obj)
    IN  IF qualifiedName = Raises \/ github_owner = Raises THEN Raises
        ELSE [attributes |->
                  [name |-> clean_text(GetOrNone(obj, "name")),
                   qualifiedName |-> qualifiedName,
                   connectionQualifiedName |-> connection_qualified_name,
                   description |-> clean_text(GetOrNone(obj, "description")),
                   sourceUrl |-> GetOrNone(obj, "html_url")],
              custom_attributes |-> CustomAttributes(obj, github_owner)]

\* self.entity_class_definitions = {"REPOSITORY": GitHubRepository}
KnownTypenames == {"REPOSITORY"}

\* The logical type names a caller may hand to the transformer.
Typenames == {"REPOSITORY", "repository", "Repository", "TABLE", "table"}

\* typename.upper()
Upper(typename) ==
    CASE typename \in {"repository", "Repository"} -> "REPOSITORY"
      [] typename = "table" -> "TABLE"
      [] OTHER -> typename

\* AtlasTransformer._enrich_entity_with_metadata: the standard attributes
\* of the run that produced the entity.
enrich_entity_with_metadata(workflow_id, workflow_run_id, data) ==
    [attributes |-> [lastSyncWorkflowName |-> workflow_id,
                     lastSyncRun |-> workflow_run_id],
     custom_attributes |-> <<>>]

\* a.update(b) on dictionaries, giving the updated a
Update(a, b) ==
    [k \in DOMAIN a \cup DOMAIN b |-> IF k \in DOMAIN b THEN b[k] ELSE a[k]]

\* without the try/except around the mapping: its exception leaves the call
transform_row_NoExcept(typename, data, workflow_id, workflow_run_id, connection) ==
    LET connection_qualified_name ==
            OrDefault(connection.connection_qualified_name,
                      DefaultConnectionQualifiedName)
        entity_attributes == get_attributes(data, connection_qualified_name)
        enriched_data ==
            enrich_entity_with_metadata(workflow_id, workflow_run_id, data)
    IN  IF Upper(typename) \notin KnownTypenames THEN Null
        ELSE IF entity_attributes = Raises THEN Raises
        ELSE [typeName |-> "Resource",
              attributes |-> Update(entity_attributes.attributes,
                                    enriched_data.attributes),
              customAttributes |-> Update(entity_attributes.custom_attributes,
                                          enriched_data.custom_attributes),
              status |-> "ACTIVE"]

\* transformer.py lines 100-155: the entity of one row, or None
transform_row(typename, data, workflow_id, workflow_run_id, connection) ==
    LET connection_qualified_name ==
            OrDefault(connection.connection_qualified_name,
                      DefaultConnectionQualifiedName)
        creator == Upper(typename) \in KnownTypenames
        entity_attributes == get_attributes(data, connection_qualified_name)
        enriched_data ==
            enrich_entity_with_metadata(workflow_id, workflow_run_id, data)
    IN  IF ~creator THEN Null
        ELSE IF entity_attributes = Raises THEN Null
        ELSE [typeName |-> "Resource",
              attributes |-> Update(entity_attributes.attributes,
                                    enriched_data.attributes),
              customAttributes |-> Update(entity_attributes.custom_attributes,
                                          enriched_data.custom_attributes),
              status |-> "ACTIVE"]

\* AtlasTransformer.transform_metadata: transform_row on every row of the
\* dataframe; the rows it gives None for are left out.
transform_metadata(typename, rows, workflow_id, workflow_run_id, connection) ==
    SelectSeq([i \in 1..Len(rows) |->
                  transform_row(typename, rows[i], workflow_id,
                                workflow_run_id, connection)],
              LAMBDA e : e # Null)

-----------------------------------------------------------------------------
(* SourceSenseActivities.transform_data *)

\* os.path.exists(local_parquet_path): the only directory the run creates is
\* <output_path>/raw/REPOSITORY.
PathExists(p, args) ==
    /\ dir_exists
    /\ Truthy(GetOrNone(args, "output_path"))
    /\ p = RawDataPath(args["output_path"])

\* daft.read_parquet of one file succeeds on a complete parquet file only
Readable(content) == content.kind = "parquet"

\* a directory without any data file reads as an empty dataset
ReadStage_EmptyWhenNoFile(args) ==
    LET local_parquet_path == GetOrNone(args, "local_parquet_path")
        found == {f \in DOMAIN files : files[f] # NoFile}
    IN  IF ~Truthy(local_parquet_path)
          THEN [error |-> "ValueError", rows |-> <<>>]
        ELSE IF ~PathExists(local_parquet_path, args)
          THEN [error |-> "FileNotFoundError", rows |-> <<>>]
        ELSE IF found = {}
          THEN [error |-> "none", rows |-> <<>>]
        ELSE IF \E f \in found : ~Readable(files[f])
          THEN [error |-> "ReadError", rows |-> <<>>]
        ELSE [error |-> "none", rows |-> files[CHOOSE f \in found : TRUE].rows]

\* activities.py lines 224-253: the rows of the staged dataset, or the error
\* the read ends with.
ReadStage(args) ==
    LET local_parquet_path == GetOrNone(args, "local_parquet_path")
        found == {f \in DOMAIN files : files[f] # NoFile}
    IN  IF ~Truthy(local_parquet_path)
          THEN [error |-> "ValueError", rows |-> <<>>]
        ELSE IF ~PathExists(local_parquet_path, args)
          THEN [error |-> "FileNotFoundError", rows |-> <<>>]
        ELSE IF files[PrimaryFile] # NoFile
          THEN IF ~Readable(files[PrimaryFile])
                 THEN [error |-> "ReadError", rows |-> <<>>]
                 ELSE [error |-> "none", rows |-> files[PrimaryFile].rows]
        ELSE IF found = {}
          THEN [error |-> "FileNotFoundError", rows |-> <<>>]
        ELSE IF \E f \in found : ~Readable(files[f])
          THEN [error |-> "ReadError", rows |-> <<>>]
        ELSE [error |-> "none", rows |-> files[AlternativeFile].rows]

\* What JsonOutput.write_daft_dataframe may do.
OutputWrites == {"written", "raises"}

\* raw_dataframe.count_rows() == 0 /
\* not transformed_dataframe or transformed_dataframe.count_rows() == 0
NothingToPublish(rows) == Len(rows) = 0

\* transform_kwargs before transform_data has built it.
NoKwargs ==
    [typename |-> "", dataframe |-> <<>>, workflow_id |-> Null,
     workflow_run_id |-> Null,
     connection |-> [connection_name |-> Null,
                     connection_qualified_name |-> Null]]

\* activities.py lines 264-277: the keyword arguments of transform_metadata
TransformKwargs(args, raw_dataframe) ==
    [typename |-> "REPOSITORY",
     dataframe |-> raw_dataframe,
     workflow_id |-> Get(args, "workflow_id", Str("")),
     workflow_run_id |-> Get(args, "workflow_run_id", Str("")),
     connection |->
         [connection_name |->
              OrDefault(GetOrNone(args, "connection_name"),
                        DefaultConnectionName),
          connection_qualified_name |->
              OrDefault(GetOrNone(args, "connection_qualified_name"),
                        DefaultConnectionQualifiedName)]]

\* activities.py lines 219-277: the staged dataset is read; a failed read
\* raises, an empty dataset returns None, otherwise the arguments of the
\* normalization are built.
TransformRead ==
    /\ act_pc = "transform"
    /\ LET staged == ReadStage(workflow_args)
       IN  IF staged.error # "none"
             THEN /\ Raise("transform_data", staged.error, <<>>)
                  /\ UNCHANGED <<transform_stats, transform_kwargs>>
           ELSE IF NothingToPublish(staged.rows)
             THEN /\ transform_stats' = Null
                  /\ Return("transform_data")
                  /\ UNCHANGED transform_kwargs
           ELSE /\ transform_kwargs' =
                       TransformKwargs(workflow_args, staged.rows)
                /\ act_pc' = "transform_normalize"
                /\ UNCHANGED <<stage, last_error, transform_stats>>
    /\ UNCHANGED <<wf_pc, starts, workflow_config, workflow_args, gwa_locals,
                   http_calls, client_locals, fetch_locals, disk,
                   fetch_result, entities, upload_result, upload_stats,
                   load_state,
                   publish_locals, concurrent_runs>>

\* activities.py lines 260-261, 285-290: the JsonOutput the entities are
\* written through
JsonOutput(args) ==
    [output_prefix |-> GetOrNone(args, "output_prefix"),
     output_path |-> GetOrNone(args, "output_path"),
     output_suffix |-> "transformed", typename |-> "REPOSITORY"]

\* transform_row lets an exception out on some row of the dataframe.
RowRaises(kwargs) ==
    \E i \in 1..Len(kwargs.dataframe) :
        transform_row(kwargs.typename, kwargs.dataframe[i],
                      kwargs.workflow_id, kwargs.workflow_run_id,
                      kwargs.connection) = Raises

\* activities.py lines 279-311: the rows are normalized; no entity returns
\* None, otherwise the entities are written out for publishing. (An
\* exception out of the transformer would be logged and re-raised.)
TransformNormalize ==
    /\ act_pc = "transform_normalize"
    /\ LET transformed ==
               transform_metadata(transform_kwargs.typename,
                                  transform_kwargs.dataframe,
                                  transform_kwargs.workflow_id,
                                  transform_kwargs.workflow_run_id,
                                  transform_kwargs.connection)
       IN  IF RowRaises(transform_kwargs)
             THEN /\ Raise("transform_data", "TransformError", <<>>)
                  /\ UNCHANGED <<transform_stats, entities,
                                 transformed_output>>
           ELSE IF NothingToPublish(transformed)
             THEN /\ transform_stats' = Null
                  /\ Return("transform_data")
                  /\ UNCHANGED <<entities, transformed_output>>
           ELSE /\ transformed_output' = JsonOutput(workflow_args)
                /\ \E w \in OutputWrites :
                     IF w = "written"
                       THEN /\ entities' = transformed
                            /\ transform_stats' = ActivityStatistics(
                                   Len(transformed), 1, "REPOSITORY")
                            /\ Return("transform_data")
                       ELSE /\ Raise("transform_data", "WriteError", <<>>)
                            /\ UNCHANGED <<transform_stats, entities>>
    /\ UNCHANGED <<wf_pc, starts, workflow_config, workflow_args, gwa_locals,
                   http_calls, client_locals, fetch_locals, disk,
                   fetch_result, upload_result, transform_kwargs,
                   upload_stats, load_state, migration_prefix,
                   concurrent_runs>>

-----------------------------------------------------------------------------
(* SourceSenseActivities.upload_to_atlan *)

MigrationStats(migrated, failures) ==
    [migrated_files |-> migrated, failed_migrations |-> Len(failures),
     total_files |-> migrated + Len(failures), failures |-> failures]

\* What AtlanStorage.migrate_from_objectstore_to_atlan may report for n
\* staged files.
MigrationResults(n) ==
    {MigrationStats(n, <<>>), MigrationStats(n - 1, <<"failure-1">>),
     MigrationStats(0, [i \in 1..n |-> "failure-1"])}

\* the upload fails only when no file was migrated
MigrationFailed_NothingMigrated(result) == result.migrated_files = 0

\* if upload_stats.failures
MigrationFailed(result) == result.failures # <<>>

\* application_sdk get_object_store_prefix(path): a path under
\* TEMPORARY_PATH gives its part below TEMPORARY_PATH, any other path is
\* taken as it is.
get_object_store_prefix(path) ==
    LET n == Len(TEMPORARY_PATH.p)
    IN  IF Len(path.p) >= n /\ SubSeq(path.p, 1, n) = TEMPORARY_PATH.p
          THEN Path(SubSeq(path.p, n + 1, Len(path.p)))
          ELSE path

\* activities.py lines 320-352
UploadToAtlan ==
    /\ act_pc = "upload"
    /\ IF ~Truthy(workflow_args["output_path"])
         THEN /\ Raise("upload_to_atlan", "ValueError", <<>>)
              /\ UNCHANGED upload_result
              /\ UNCHANGED <<upload_stats, migration_prefix>>
         ELSE \E result \in MigrationResults(Len(entities)) :
                /\ migration_prefix' =
                       get_object_store_prefix(workflow_args["output_path"])
                /\ upload_stats' = result
                /\ IF MigrationFailed(result)
                     THEN /\ Raise("upload_to_atlan", "ActivityError",
                                   <<Len(result.failures)>>)
                          /\ UNCHANGED upload_result
                     ELSE /\ upload_result' = ActivityStatistics(
                                 result.migrated_files,
                                 result.total_files,
                                 "atlan-upload-completed")
                          /\ Return("upload_to_atlan")
    /\ UNCHANGED <<wf_pc, starts, workflow_config, workflow_args, gwa_locals,
                   http_calls, client_locals, fetch_locals, disk,
                   fetch_result, transform_stats, entities, transform_kwargs,
                   load_state, transformed_output, concurrent_runs>>

-----------------------------------------------------------------------------
(* GitHubHandler.load and GitHubClient.load *)

Config(token, credentials) == [token |-> token, credentials |-> credentials]

Credentials(token, username) ==
    Dict([token |-> token, username |-> username])

\* The config of a handler that has not been asked to load.
NoConfig == Config(Absent, Absent)

\* self.http_headers of a client that has not loaded credentials.
NoHeaders == [Authorization |-> Absent, Accept |-> Absent]

\* client.py lines 26-29: Authorization is f"Bearer {auth_token}"
Headers(auth_token) ==
    [Authorization |-> Text(<<"Bearer", " ", auth_token.s>>),
     Accept |-> Str("application/vnd.github.v3+json")]

\* The configs GitHubHandler.load may be handed: the token at the top level,
\* or the credentials in a nested object, or neither, or both.
Configs ==
    {Config(token, credentials) :
        token \in {Absent, Null, Str(""), Str("ghp_1"), Str("ghp_2")},
        credentials \in
            {Absent, Null, Credentials(Absent, Absent),
             Credentials(Absent, Str("octocat")),
             Credentials(Str(""), Absent),
             Credentials(Str("ghp_1"), Absent),
             Credentials(Str("ghp_2"), Str("octocat"))}}

\* handler.py lines 27-33: credentials_to_load
CredentialsToLoad(config) ==
    IF Has(config, "token") THEN Dict(config)
    ELSE IF Has(config, "credentials") THEN config["credentials"]
    ELSE Credentials(Absent, Absent)

\* an empty token passes for a token
TokenGiven_EmptyAllowed(auth_token) == auth_token.t = "str"

\* client.py line 23: `if not auth_token` does not hold
TokenGiven(auth_token) == Truthy(auth_token)

\* handler.py lines 27-38: the credentials are picked out of the config;
\* none raises, otherwise they are handed to the client.
HandlerLoad ==
    /\ act_pc = "handler_load"
    /\ LET credentials_to_load == CredentialsToLoad(handler_config)
       IN  IF ~Truthy(credentials_to_load)
             THEN /\ last_error' = Error("GitHubHandler.load", "ValueError", <<>>)
                  /\ act_pc' = "idle"
                  /\ UNCHANGED client_credentials
             ELSE /\ client_credentials' = credentials_to_load
                  /\ act_pc' = "client_load"
                  /\ UNCHANGED last_error
    /\ UNCHANGED <<wf_pc, stage, starts, workflow_config, workflow_args,
                   gwa_locals, http_calls, client_locals, fetch_locals, disk,
                   outputs, transform_kwargs, upload_stats, handler_config,
                   http_headers, publish_locals, concurrent_runs>>

\* client.py lines 21-30: without a token the load raises, with one the
\* headers are set.
ClientLoad ==
    /\ act_pc = "client_load"
    /\ LET auth_token == GetOrNone(client_credentials.d, "token")
       IN  IF ~TokenGiven(auth_token)
             THEN /\ last_error' = Error("GitHubClient.load", "ValueError", <<>>)
                  /\ UNCHANGED http_headers
             ELSE /\ http_headers' = Headers(auth_token)
                  /\ UNCHANGED last_error
    /\ act_pc' = "idle"
    /\ UNCHANGED <<wf_pc, stage, starts, workflow_config, workflow_args,
                   gwa_locals, http_calls, client_locals, fetch_locals, disk,
                   outputs, transform_kwargs, upload_stats, handler_config,
                   client_credentials, publish_locals, concurrent_runs>>

-----------------------------------------------------------------------------
(* SourceSenseWorkflow.run, from the fetch on *)

\* workflow.py lines 53-61: preflight passed, fetch_repositories starts.
WfStartFetch ==
    /\ wf_pc = "preflight_check"
    /\ Proceeds("preflight_check")
    /\ StartActivity("fetch_repositories", "fetch_entry")
    /\ UNCHANGED <<workflow_config, workflow_args, gwa_locals, last_error,
                   http_calls, client_locals, fetch_locals, disk, outputs,
                   transform_kwargs, upload_stats, load_state,
                   publish_locals, concurrent_runs>>

\* the later stages run whatever the earlier one returned
HasResult_Always(result) == TRUE

\* `if fetch_result:` / `if transform_stats:`
HasResult(result) == Truthy(result)

\* the path the fetch returned is taken for the output_path as well
AddLocalPath_OverOutputPath(args, result) ==
    LET local_parquet_path ==
            IF IsDict(result) THEN result.d["local_path"] ELSE Null
    IN  SetKey(SetKey(args, "local_parquet_path", local_parquet_path),
               "output_path", local_parquet_path)

\* workflow.py lines 68-72:
\* workflow_args["local_parquet_path"] = fetch_result.get("local_path")
AddLocalPath(args, result) ==
    LET local_parquet_path ==
            IF IsDict(result) THEN result.d["local_path"] ELSE Null
    IN  SetKey(args, "local_parquet_path", local_parquet_path)

\* workflow.py lines 64-79: the fetch returned a result; its local_path is
\* added to workflow_args and transform_data starts.
WfStartTransform ==
    /\ wf_pc = "fetch_repositories"
    /\ Proceeds("fetch_repositories")
    /\ HasResult(fetch_result)
    /\ workflow_args' = AddLocalPath(workflow_args, fetch_result)
    /\ StartActivity("transform_data", "transform")
    /\ UNCHANGED <<workflow_config, gwa_locals, last_error, http_calls,
                   client_locals, fetch_locals, disk, outputs,
                   transform_kwargs, upload_stats, load_state,
                   publish_locals, concurrent_runs>>

\* workflow.py lines 82-87: the transform returned statistics,
\* upload_to_atlan starts.
WfStartUpload ==
    /\ wf_pc = "transform_data"
    /\ Proceeds("transform_data")
    /\ HasResult(transform_stats)
    /\ StartActivity("upload_to_atlan", "upload")
    /\ UNCHANGED <<workflow_config, workflow_args, gwa_locals, last_error,
                   http_calls, client_locals, fetch_locals, disk, outputs,
                   transform_kwargs, upload_stats, load_state,
                   publish_locals, concurrent_runs>>

\* workflow.py line 90: run() returns, after the upload or after an empty
\* fetch or transform.
WfFinish ==
    /\ \/ wf_pc = "fetch_repositories"
          /\ Proceeds("fetch_repositories") /\ ~HasResult(fetch_result)
       \/ wf_pc = "transform_data"
          /\ Proceeds("transform_data") /\ ~HasResult(transform_stats)
       \/ wf_pc = "upload_to_atlan" /\ Proceeds("upload_to_atlan")
    /\ wf_pc' = "done"
    /\ UNCHANGED <<stage, starts, act_pc, workflow_config, workflow_args,
                   gwa_locals, last_error, http_calls, client_locals,
                   fetch_locals, disk, outputs, transform_kwargs,
                   upload_stats, load_state,
                   publish_locals, concurrent_runs>>

-----------------------------------------------------------------------------
(* Runs executing concurrently *)

\* The runs that execute at the same time.
Runs == {1, 2}

\* The variables of the single run.
single_run ==
    <<wf_pc, stage, starts, act_pc, workflow_config, workflow_args,
      gwa_locals, last_error, http_calls, client_locals, fetch_locals, disk,
      outputs, transform_kwargs, upload_stats, load_state, publish_locals>>

\* A run that is about to resolve its configuration: workflow_config is what
\* it was started with, stored what the state store holds for it.
Run(config, stored) ==
    [pc |-> "resolve", workflow_config |-> config, stored |-> stored,
     workflow_args |-> NoArgs, attempt |-> 0, rows |-> <<>>,
     entities |-> <<>>]

\* The output_path get_workflow_args gives the run.
RunOutputPath(run) ==
    AugmentArgs(run.stored,
                ResolveWorkflowId(run.workflow_config))["output_path"]

\* Each run has its own workflow id: the first has the one of the execution
\* engine, the second has one in its workflow_config.
RunConfigs == <<[workflow_id |-> Absent], [workflow_id |-> Str("wf-cfg")]>>

\* The output prefixes the stored configurations name: none, a directory, or
\* a directory inside the default output path of the first run.
RunPrefixes ==
    {Absent, Path(<<"data">>),
     RunOutputPath(Run(RunConfigs[1], StoredConfig(Absent, Absent)))}

\* The staging directories of the disk.
Dirs ==
    {RawDataPath(RunOutputPath(
         Run(RunConfigs[r], StoredConfig(prefix, Absent)))) :
        r \in Runs, prefix \in RunPrefixes}

\* The dataset a run has staged, and the one an earlier run has left behind.
StagedBy(rows, r) == [kind |-> "parquet", rows |-> rows, by |-> r]
Stale == StagedBy(ToColumnar(FlattenAll(<<RepoNameless>>)), 0)

\* The prefixes of the object store.
Prefixes ==
    {get_object_store_prefix(RunOutputPath(
         Run(RunConfigs[r], StoredConfig(prefix, Absent)))) :
        r \in Runs, prefix \in RunPrefixes}

\* No other run executes: the shared disk and object store are not touched.
NoConcurrentRuns ==
    /\ runs = [r \in Runs |-> Run(RunConfigs[r], NoArgs)]
    /\ tree = [d \in Dirs |-> NoFile]
    /\ object_store = [prefix \in Prefixes |-> Null]

\* the whole output prefix is cleared
CleanupRoot_Prefix(args) == GetOrNone(args, "output_prefix")

\* activities.py line 104: the directory fetch_repositories clears
CleanupRoot(args) == GetOrNone(args, "output_path")

\* os.path.exists(root)
ExistsIn(t, root) == \E d \in DOMAIN t : IsUnder(d, root) /\ t[d] # NoFile

\* shutil.rmtree(root)
RemoveTree(t, root) ==
    [d \in DOMAIN t |-> IF IsUnder(d, root) THEN NoFile ELSE t[d]]

\* activities.py lines 53-85, one attempt of the loop: the read returns the
\* stored configuration, or raises; "not found" before the last attempt
\* sends the run to sleep. (The loop variable is gone when the activity
\* ends.)
RunResolve(r) ==
    /\ runs[r].pc = "resolve"
    /\ \/ runs' = [runs EXCEPT
              ![r].workflow_args =
                  AugmentArgs(runs[r].stored,
                              ResolveWorkflowId(runs[r].workflow_config)),
              ![r].attempt = 0,
              ![r].pc = "preflight"]
       \/ \E msg \in ErrorMessages :
            IF IsNotFound(msg) /\ ShouldSleep(runs[r].attempt)
              THEN runs' = [runs EXCEPT ![r].pc = "sleeping"]
              ELSE runs' = [runs EXCEPT ![r].attempt = 0,
                                        ![r].pc = "failed"]
    /\ UNCHANGED <<tree, object_store, single_run>>

\* activities.py line 79, then line 60: await asyncio.sleep(...) ends and the
\* loop moves on to the next attempt.
RunWake(r) ==
    /\ runs[r].pc = "sleeping"
    /\ runs' = [runs EXCEPT ![r].attempt = @ + 1, ![r].pc = "resolve"]
    /\ UNCHANGED <<tree, object_store, single_run>>

\* handler.py lines 56-66
RunPreflight(r) ==
    /\ runs[r].pc = "preflight"
    /\ \E response \in ProbeResponses :
         runs' = [runs EXCEPT
             ![r].pc = IF /\ Truthy(OwnerOf(runs[r].workflow_args))
                          /\ check_owner_exists(response)
                         THEN "fetch" ELSE "failed"]
    /\ UNCHANGED <<tree, object_store, single_run>>

\* activities.py lines 104-107: the output of an earlier run is removed.
RunFetchClean(r) ==
    /\ runs[r].pc = "fetch"
    /\ LET root == CleanupRoot(runs[r].workflow_args)
       IN  tree' = IF Truthy(root) /\ ExistsIn(tree, root)
                     THEN RemoveTree(tree, root) ELSE tree
    /\ runs' = [runs EXCEPT ![r].pc = "fetch_write"]
    /\ UNCHANGED <<object_store, single_run>>

\* activities.py lines 110-210, workflow.py lines 64-72: the records fetched
\* are flattened and written under <output_path>/raw/REPOSITORY, and the
\* directory is added to the run's workflow_args; nothing fetched ends the
\* run.
RunFetchWrite(r) ==
    /\ runs[r].pc = "fetch_write"
    /\ \E raw \in PageBodies, w \in OutputWrites :
         LET args == runs[r].workflow_args
             rows == ToColumnar(FlattenAll(raw))
             local_path == RawDataPath(args["output_path"])
         IN  IF NothingFetched(raw)
               THEN /\ runs' = [runs EXCEPT ![r].pc = "done"]
                    /\ UNCHANGED tree
             ELSE IF w = "raises"
               THEN /\ runs' = [runs EXCEPT ![r].pc = "failed"]
                    /\ UNCHANGED tree
             ELSE /\ tree' = [tree EXCEPT ![local_path] = StagedBy(rows, r)]
                  /\ runs' = [runs EXCEPT
                         ![r].rows = rows,
                         ![r].workflow_args =
                             AddLocalPath(args,
                                 Dict([local_path |-> local_path])),
                         ![r].pc = "transform"]
    /\ UNCHANGED <<object_store, single_run>>

\* activities.py lines 224-307: the staged dataset is read and normalized,
\* the entities are staged in the object store for publishing.
RunTransform(r) ==
    /\ runs[r].pc = "transform"
    /\ LET args == runs[r].workflow_args
           staged == tree[args["local_parquet_path"]]
           kwargs == TransformKwargs(args,
                         IF staged = NoFile THEN <<>> ELSE staged.rows)
           transformed ==
               transform_metadata(kwargs.typename, kwargs.dataframe,
                                  kwargs.workflow_id, kwargs.workflow_run_id,
                                  kwargs.connection)
       IN  IF staged = NoFile
             THEN /\ runs' = [runs EXCEPT ![r].pc = "failed"]
                  /\ UNCHANGED object_store
           ELSE IF NothingToPublish(transformed)
             THEN /\ runs' = [runs EXCEPT ![r].pc = "done"]
                  /\ UNCHANGED object_store
           ELSE /\ object_store' =
                       [object_store EXCEPT
                           ![get_object_store_prefix(args["output_path"])] =
                               [entities |-> transformed, by |-> r]]
                /\ runs' = [runs EXCEPT ![r].entities = transformed,
                                        ![r].pc = "upload"]
    /\ UNCHANGED <<tree, single_run>>

\* activities.py lines 320-352: what is staged under the run's prefix is
\* migrated.
RunUpload(r) ==
    /\ runs[r].pc = "upload"
    /\ LET migration ==
               object_store[get_object_store_prefix(
                                runs[r].workflow_args["output_path"])]
       IN  \E result \in MigrationResults(Len(migration.entities)) :
             runs' = [runs EXCEPT
                 ![r].pc = IF MigrationFailed(result)
                             THEN "failed" ELSE "done"]
    /\ UNCHANGED <<tree, object_store, single_run>>

\* The steps of one run.
RunNext(r) ==
    \/ RunResolve(r)
    \/ RunWake(r)
    \/ RunPreflight(r)
    \/ RunFetchClean(r)
    \/ RunFetchWrite(r)
    \/ RunTransform(r)
    \/ RunUpload(r)

\* Neither output path lies under the other.
Disjoint(p, q) == p # q /\ ~IsUnder(p, q) /\ ~IsUnder(q, p)

-----------------------------------------------------------------------------
(* The run *)

Init ==
    /\ wf_pc = "begin"
    /\ stage = [s \in ActivityNames |-> "idle"]
    /\ starts = [s \in ActivityNames |-> 0]
    /\ act_pc = "idle"
    /\ workflow_config \in WorkflowConfigs
    /\ workflow_args = NoArgs
    /\ attempt = 0 /\ reads = 0 /\ sleeps = 0 /\ slept_seconds = 0
    /\ last_read = NoRead
    /\ last_error = NoError
    /\ http_calls = 0
    /\ url = Null /\ all_results = <<>>
    /\ requested = <<>> /\ responses = <<>> /\ page_failed = FALSE
    /\ raw_data_list = <<>> /\ flattened_data = <<>>
    /\ files = EmptyDir /\ dir_exists = FALSE /\ written_by = NotWritten
    /\ fetch_result = Null /\ transform_stats = Null
    /\ transform_kwargs = NoKwargs
    /\ entities = <<>> /\ upload_stats = Null /\ upload_result = Null
    /\ handler_config = NoConfig /\ client_credentials = Absent
    /\ http_headers = NoHeaders
    /\ transformed_output = Null /\ migration_prefix = Null
    /\ NoConcurrentRuns

Next ==
    \/ WfStartResolve
    \/ GwaEntry
    \/ GwaReadOk
    \/ GwaReadFails
    \/ GwaSleep
    \/ WfStartPreflight
    \/ PreflightNoOwner
    \/ PreflightProbe
    \/ WfStartFetch
    \/ FetchEntry
    \/ RequestPage
    \/ FetchFlatten
    \/ FetchWrite
    \/ WfStartTransform
    \/ TransformRead
    \/ TransformNormalize
    \/ WfStartUpload
    \/ UploadToAtlan
    \/ WfFinish
    \/ WfActivityFailed

Spec == Init /\ [][Next]_vars

-----------------------------------------------------------------------------
(* The flatten step on its own: fetch_repositories holding any raw list *)

RawLists ==
    UNION {[1..n -> RawRecords] : n \in 0..MaxRaw}

InitFlatten ==
    /\ wf_pc = "fetch_repositories"
    /\ stage = [s \in ActivityNames |->
                   IF s \in {"get_workflow_args", "preflight_check"}
                     THEN "returned"
                   ELSE IF s = "fetch_repositories" THEN "running"
                   ELSE "idle"]
    /\ starts = [s \in ActivityNames |->
                    IF s \in {"get_workflow_args", "preflight_check",
                              "fetch_repositories"} THEN 1 ELSE 0]
    /\ act_pc = "fetch_flatten"
    /\ workflow_config = [workflow_id |-> Absent]
    /\ workflow_args =
           AugmentArgs(StoredConfig(Absent, Metadata(Str("octocat"))),
                       EngineWorkflowId)
    /\ attempt = 0 /\ reads = 0 /\ sleeps = 0 /\ slept_seconds = 0
    /\ last_read = NoRead
    /\ last_error = NoError
    /\ http_calls = 2
    /\ url = Null /\ all_results = <<>>
    /\ requested = <<>> /\ responses = <<>> /\ page_failed = FALSE
    /\ raw_data_list \in RawLists
    /\ flattened_data = <<>>
    /\ files = EmptyDir /\ dir_exists = FALSE /\ written_by = NotWritten
    /\ fetch_result = Null /\ transform_stats = Null
    /\ transform_kwargs = NoKwargs
    /\ entities = <<>> /\ upload_stats = Null /\ upload_result = Null
    /\ handler_config = NoConfig /\ client_credentials = Absent
    /\ http_headers = NoHeaders
    /\ transformed_output = Null /\ migration_prefix = Null
    /\ NoConcurrentRuns

NextFlatten == FetchFlatten

SpecFlatten == InitFlatten /\ [][NextFlatten]_vars

-----------------------------------------------------------------------------
(* fetch_repositories invoked again and again on the same output_path *)

\* workflow.py lines 57-61: the execution engine invokes the activity again,
\* with the same workflow_args, after an invocation that raised, that it
\* gave up on part-way, or whose result did not reach it.
ReinvokeFetch ==
    /\ wf_pc = "fetch_repositories"
    /\ stage["fetch_repositories"] # "idle"
    /\ starts["fetch_repositories"] < MaxInvocations
    /\ StartActivity("fetch_repositories", "fetch_entry")
    /\ raw_data_list' = <<>> /\ flattened_data' = <<>>
    /\ fetch_result' = Null
    /\ UNCHANGED <<workflow_config, workflow_args, gwa_locals, last_error,
                   http_calls, client_locals, disk, transform_stats,
                   entities, upload_result, transform_kwargs, upload_stats,
                   load_state,
                   publish_locals, concurrent_runs>>

\* The run has started fetch_repositories for the first time.
InitRetry ==
    /\ wf_pc = "fetch_repositories"
    /\ stage = [s \in ActivityNames |->
                   IF s \in {"get_workflow_args", "preflight_check"}
                     THEN "returned"
                   ELSE IF s = "fetch_repositories" THEN "running"
                   ELSE "idle"]
    /\ starts = [s \in ActivityNames |->
                    IF s \in {"get_workflow_args", "preflight_check",
                              "fetch_repositories"} THEN 1 ELSE 0]
    /\ act_pc = "fetch_entry"
    /\ workflow_config = [workflow_id |-> Absent]
    /\ \E prefix \in {Absent, Path(<<"data">>)} :
          workflow_args =
              AugmentArgs(StoredConfig(prefix, Metadata(Str("octocat"))),
                          EngineWorkflowId)
    /\ attempt = 0 /\ reads = 0 /\ sleeps = 0 /\ slept_seconds = 0
    /\ last_read = NoRead
    /\ last_error = NoError
    /\ http_calls = 1
    /\ url = Null /\ all_results = <<>>
    /\ requested = <<OwnerUrl(Str("octocat"))>>
    /\ responses = <<[NoResponse EXCEPT !.status = 200]>>
    /\ page_failed = FALSE
    /\ raw_data_list = <<>> /\ flattened_data = <<>>
    /\ files = EmptyDir /\ dir_exists = FALSE /\ written_by = NotWritten
    /\ fetch_result = Null /\ transform_stats = Null
    /\ transform_kwargs = NoKwargs
    /\ entities = <<>> /\ upload_stats = Null /\ upload_result = Null
    /\ handler_config = NoConfig /\ client_credentials = Absent
    /\ http_headers = NoHeaders
    /\ transformed_output = Null /\ migration_prefix = Null
    /\ NoConcurrentRuns

NextRetry ==
    \/ FetchEntry
    \/ RequestPage
    \/ FetchFlatten
    \/ FetchWrite
    \/ ReinvokeFetch

SpecRetry == InitRetry /\ [][NextRetry]_vars

-----------------------------------------------------------------------------
(* transform_data invoked on any staging location *)

\* The datasets a staged file may hold.
StagedRows ==
    {<<>>, ToColumnar(FlattenAll(<<RepoHello>>)),
     ToColumnar(FlattenAll(<<RepoWorld, RepoHello>>))}

\* What may be at the path of a staged file.
FileContents == {NoFile, ZeroBytes, Partial} \cup {Parquet(r) : r \in StagedRows}

\* The local_parquet_path values transform_data may be handed.
StagingPaths(args) ==
    {Absent, Null, Str(""), RawDataPath(args["output_path"]),
     Path(<<"elsewhere", "raw", "REPOSITORY">>)}

\* The run has started transform_data.
InitTransform ==
    /\ wf_pc = "transform_data"
    /\ stage = [s \in ActivityNames |->
                   IF s = "upload_to_atlan" THEN "idle"
                   ELSE IF s = "transform_data" THEN "running"
                   ELSE "returned"]
    /\ starts = [s \in ActivityNames |->
                    IF s = "upload_to_atlan" THEN 0 ELSE 1]
    /\ act_pc = "transform"
    /\ workflow_config = [workflow_id |-> Absent]
    /\ LET args == AugmentArgs(StoredConfig(Absent, Metadata(Str("octocat"))),
                               EngineWorkflowId)
       IN  /\ \E path \in StagingPaths(args) :
                 workflow_args = SetKey(args, "local_parquet_path", path)
           /\ fetch_result =
                  Dict([stats |-> ActivityStatistics(1, 1, "REPOSITORY"),
                        local_path |-> RawDataPath(args["output_path"])])
    /\ attempt = 0 /\ reads = 0 /\ sleeps = 0 /\ slept_seconds = 0
    /\ last_read = NoRead
    /\ last_error = NoError
    /\ http_calls = 2
    /\ url = Null /\ all_results = <<>>
    /\ requested = <<>> /\ responses = <<>> /\ page_failed = FALSE
    /\ raw_data_list = <<>> /\ flattened_data = <<>>
    /\ dir_exists \in BOOLEAN
    /\ files \in [{PrimaryFile, AlternativeFile} -> FileContents]
    /\ ~dir_exists => files = EmptyDir
    /\ written_by = [f \in DOMAIN files |-> IF files[f] = NoFile THEN 0 ELSE 1]
    /\ transform_stats = Null
    /\ transform_kwargs = NoKwargs
    /\ entities = <<>> /\ upload_stats = Null /\ upload_result = Null
    /\ handler_config = NoConfig /\ client_credentials = Absent
    /\ http_headers = NoHeaders
    /\ transformed_output = Null /\ migration_prefix = Null
    /\ NoConcurrentRuns

NextTransform ==
    \/ TransformRead
    \/ TransformNormalize

SpecTransform == InitTransform /\ [][NextTransform]_vars

-----------------------------------------------------------------------------
(* The normalization on its own: the transformer handed any batch *)

\* The rows of the dataframes: flattened records, a record that kept its
\* owner object, one whose owner is null, one without a full_name, and one
\* that shares its full_name with another.
BatchRows ==
    {FlattenRepo(RepoHello), FlattenRepo(RepoWorld), FlattenRepo(RepoNameless),
     RepoHello,
     Repo(Text(<<"h", "i">>), Str("octocat/world"), Null, Null),
     Repo(Text(<<"y", "o">>), Str("octocat/hello"), Absent, Str("hubot"))}

Batches == UNION {[1..n -> BatchRows] : n \in 1..MaxBatch}

\* The keyword arguments transform_metadata may be called with.
KwargsSets ==
    [typename : Typenames,
     dataframe : Batches,
     workflow_id : {Str("wf-engine"), Str("wf-cfg")},
     workflow_run_id : {Str("run-1"), Str("run-2")},
     connection :
         [connection_name : {DefaultConnectionName},
          connection_qualified_name :
              {Null, DefaultConnectionQualifiedName,
               Path(<<"default", "github", "prod">>)}]]

\* transform_data has read a dataframe and is about to normalize it.
InitNormalize ==
    /\ wf_pc = "transform_data"
    /\ stage = [s \in ActivityNames |->
                   IF s = "upload_to_atlan" THEN "idle"
                   ELSE IF s = "transform_data" THEN "running"
                   ELSE "returned"]
    /\ starts = [s \in ActivityNames |->
                    IF s = "upload_to_atlan" THEN 0 ELSE 1]
    /\ act_pc = "transform_normalize"
    /\ workflow_config = [workflow_id |-> Absent]
    /\ transform_kwargs \in KwargsSets
    /\ LET args == AugmentArgs(StoredConfig(Absent, Metadata(Str("octocat"))),
                               EngineWorkflowId)
           local_path == RawDataPath(args["output_path"])
       IN  /\ workflow_args = SetKey(args, "local_parquet_path", local_path)
           /\ fetch_result =
                  Dict([stats |-> ActivityStatistics(
                            Len(transform_kwargs.dataframe), 1, "REPOSITORY"),
                        local_path |-> local_path])
    /\ attempt = 0 /\ reads = 0 /\ sleeps = 0 /\ slept_seconds = 0
    /\ last_read = NoRead
    /\ last_error = NoError
    /\ http_calls = 2
    /\ url = Null /\ all_results = <<>>
    /\ requested = <<>> /\ responses = <<>> /\ page_failed = FALSE
    /\ raw_data_list = <<>> /\ flattened_data = <<>>
    /\ dir_exists = TRUE
    /\ files = [EmptyDir EXCEPT
                   ![PrimaryFile] = Parquet(transform_kwargs.dataframe)]
    /\ written_by = [NotWritten EXCEPT ![PrimaryFile] = 1]
    /\ transform_stats = Null
    /\ entities = <<>> /\ upload_stats = Null /\ upload_result = Null
    /\ handler_config = NoConfig /\ client_credentials = Absent
    /\ http_headers = NoHeaders
    /\ transformed_output = Null /\ migration_prefix = Null
    /\ NoConcurrentRuns

NextNormalize == TransformNormalize

SpecNormalize == InitNormalize /\ [][NextNormalize]_vars

-----------------------------------------------------------------------------
(* The load of the handler and the client on its own *)

\* GitHubHandler.load is called with some config, on a client that is fresh
\* or holds the headers of an earlier load.
InitLoad ==
    /\ wf_pc = "begin"
    /\ stage = [s \in ActivityNames |-> "idle"]
    /\ starts = [s \in ActivityNames |-> 0]
    /\ act_pc = "handler_load"
    /\ workflow_config = [workflow_id |-> Absent]
    /\ workflow_args = NoArgs
    /\ attempt = 0 /\ reads = 0 /\ sleeps = 0 /\ slept_seconds = 0
    /\ last_read = NoRead
    /\ last_error = NoError
    /\ http_calls = 0
    /\ url = Null /\ all_results = <<>>
    /\ requested = <<>> /\ responses = <<>> /\ page_failed = FALSE
    /\ raw_data_list = <<>> /\ flattened_data = <<>>
    /\ files = EmptyDir /\ dir_exists = FALSE /\ written_by = NotWritten
    /\ fetch_result = Null /\ transform_stats = Null
    /\ transform_kwargs = NoKwargs
    /\ entities = <<>> /\ upload_stats = Null /\ upload_result = Null
    /\ handler_config \in Configs
    /\ client_credentials = Absent
    /\ http_headers \in {NoHeaders, Headers(Str("ghp_old"))}
    /\ transformed_output = Null /\ migration_prefix = Null
    /\ NoConcurrentRuns

NextLoad ==
    \/ HandlerLoad
    \/ ClientLoad

SpecLoad == InitLoad /\ [][NextLoad]_vars

-----------------------------------------------------------------------------
(* Properties of get_workflow_args *)

-----------------------------------------------------------------------------
(* The run against a server that may name a next page without end *)

\* client.py lines 43-52: a turn of `while url` past the pages the run keeps
\* a record of. The server answers 200 with an empty list and names yet
\* another page: nothing is added to all_results and url moves on to the
\* page named. (requested, responses and http_calls record the requests up
\* to this point only.)
RequestPageBeyond ==
    /\ act_pc = "fetch_page"
    /\ Truthy(url)
    /\ Len(requested) + 1 >= MaxPages
    /\ \E next \in NextLinks :
         LET response == [status |-> 200, items |-> <<>>, next |-> next]
         IN  /\ ~PageFailed(response)
             /\ all_results' = Extend(all_results, response.items)
             /\ url' = NextUrl(response)
    /\ UNCHANGED <<wf_pc, stage, starts, act_pc, workflow_config,
                   workflow_args, gwa_locals, last_error, http_calls,
                   requested, responses, page_failed, fetch_locals, disk,
                   outputs, transform_kwargs, upload_stats, load_state,
                   publish_locals, concurrent_runs>>

NextLive ==
    \/ Next
    \/ RequestPageBeyond

\* The execution engine keeps running the workflow and its activities, and
\* every call of a collaborator returns: the run takes a step whenever it
\* can.
SpecLive == Init /\ [][NextLive]_vars /\ WF_vars(NextLive)

-----------------------------------------------------------------------------
(* Two runs executing concurrently on one disk and one object store *)

\* Two runs are started on output paths neither of which lies under the
\* other; the disk is empty, or holds in every staging directory what an
\* earlier run has staged there.
InitRuns ==
    /\ wf_pc = "begin"
    /\ stage = [s \in ActivityNames |-> "idle"]
    /\ starts = [s \in ActivityNames |-> 0]
    /\ act_pc = "idle"
    /\ workflow_config = [workflow_id |-> Absent]
    /\ workflow_args = NoArgs
    /\ attempt = 0 /\ reads = 0 /\ sleeps = 0 /\ slept_seconds = 0
    /\ last_read = NoRead
    /\ last_error = NoError
    /\ http_calls = 0
    /\ url = Null /\ all_results = <<>>
    /\ requested = <<>> /\ responses = <<>> /\ page_failed = FALSE
    /\ raw_data_list = <<>> /\ flattened_data = <<>>
    /\ files = EmptyDir /\ dir_exists = FALSE /\ written_by = NotWritten
    /\ fetch_result = Null /\ transform_stats = Null
    /\ transform_kwargs = NoKwargs
    /\ entities = <<>> /\ upload_stats = Null /\ upload_result = Null
    /\ handler_config = NoConfig /\ client_credentials = Absent
    /\ http_headers = NoHeaders
    /\ transformed_output = Null /\ migration_prefix = Null
    /\ \E prefixes \in [Runs -> RunPrefixes] :
         /\ runs = [r \in Runs |->
                       Run(RunConfigs[r],
                           StoredConfig(prefixes[r],
                                        Metadata(Str("octocat"))))]
         /\ Disjoint(RunOutputPath(runs[1]), RunOutputPath(runs[2]))
    /\ \E left \in {NoFile, Stale} : tree = [d \in Dirs |-> left]
    /\ object_store = [prefix \in Prefixes |-> Null]

NextRuns == \E r \in Runs : RunNext(r)

SpecRuns == InitRuns /\ [][NextRuns]_vars

GWA == "get_workflow_args"

\* C1: one invocation of get_workflow_args reads the state store at most 5
\* times and sleeps at most 4 times, 2 seconds each; it sleeps only after a
\* "not found" read that was not the 5th, every read after the first follows
\* a sleep, and when the 5th read fails with "not found" that error is raised
\* with no further sleep.
C1_AtMostFiveReads ==
    /\ reads <= 5
    /\ sleeps <= 4
    /\ slept_seconds = 2 * sleeps
    /\ act_pc = "gwa_read" => reads = sleeps /\ reads < 5
    /\ act_pc = "gwa_sleep" =>
          /\ reads = sleeps + 1 /\ reads < 5
          /\ last_read.outcome = "raised" /\ IsNotFound(last_read.msg)
    /\ (stage[GWA] = "raised" /\ last_read.outcome = "raised"
          /\ IsNotFound(last_read.msg)) =>
          /\ reads = 5 /\ sleeps = 4
          /\ last_error = Error(GWA, "StateStore", last_read.msg)

\* The 5th read failed with "not found" and the activity raised.
C1_Witness ==
    /\ stage[GWA] = "raised"
    /\ reads = 5 /\ sleeps = 4
    /\ last_read.outcome = "raised" /\ IsNotFound(last_read.msg)

\* A read that raised an error whose text does not hold "not found".
OtherErrorRead ==
    last_read.outcome = "raised" /\ ~Contains(Lower(last_read.msg), NotFoundText)

\* C2: a state-store read, on any attempt, that fails with an error not
\* classified as "not found" makes get_workflow_args raise that very error at
\* once: the activity neither sleeps nor reads again after it.
C2_OtherErrorsRaiseAtOnce ==
    /\ [](OtherErrorRead =>
            /\ stage[GWA] = "raised" /\ act_pc = "idle"
            /\ last_error = Error(GWA, "StateStore", last_read.msg)
            /\ reads = sleeps + 1)
    /\ [][OtherErrorRead =>
            reads' = reads /\ sleeps' = sleeps /\ last_read' = last_read]_vars

\* An error other than "not found" ended the activity on a later attempt.
C2_Witness ==
    /\ OtherErrorRead
    /\ stage[GWA] = "raised"
    /\ reads = 3 /\ sleeps = 2

-----------------------------------------------------------------------------
(* Properties of the run's short-circuits and stage order *)

FETCH == "fetch_repositories"
TRANSFORM == "transform_data"
UPLOAD == "upload_to_atlan"
PREFLIGHT == "preflight_check"

\* C3: when the fetch got zero records, fetch_repositories returns None and
\* leaves no file or directory behind, the run never starts transform_data or
\* upload_to_atlan, does not fail, and all it can do is finish.
C3_EmptyFetchIsNoOp ==
    (stage[FETCH] \in {"returned", "raised"} /\ raw_data_list = <<>>) =>
        /\ stage[FETCH] = "returned"
        /\ fetch_result = Null
        /\ files = EmptyDir /\ ~dir_exists
        /\ starts[TRANSFORM] = 0 /\ starts[UPLOAD] = 0
        /\ wf_pc \in {FETCH, "done"}
        /\ wf_pc = FETCH =>
              ENABLED WfFinish /\ ~ENABLED WfStartTransform
                /\ ~ENABLED WfActivityFailed

\* The run is done after a fetch of zero records.
C3_Witness ==
    /\ wf_pc = "done"
    /\ stage[FETCH] = "returned" /\ raw_data_list = <<>>
    /\ starts[TRANSFORM] = 0 /\ starts[UPLOAD] = 0

\* What transform_data's read and normalization give in the current state.
StagedNow == ReadStage(workflow_args)
NormalizedNow ==
    transform_metadata("REPOSITORY", StagedNow.rows,
        workflow_args["workflow_id"], workflow_args["workflow_run_id"],
        [connection_name |-> DefaultConnectionName,
         connection_qualified_name |-> DefaultConnectionQualifiedName])

\* C4: when the staged dataset is read and has zero rows or normalizes to zero
\* entities, transform_data returns None without raising and the run can only
\* finish, never starting upload_to_atlan; upload_to_atlan is started only
\* after transform_data returned statistics of at least one entity.
C4_EmptyTransformSkipsPublish ==
    /\ (stage[TRANSFORM] \in {"returned", "raised"}
          /\ StagedNow.error = "none" /\ NormalizedNow = <<>>) =>
          /\ stage[TRANSFORM] = "returned"
          /\ transform_stats = Null /\ entities = <<>>
    /\ (stage[TRANSFORM] = "returned" /\ transform_stats = Null) =>
          /\ starts[UPLOAD] = 0
          /\ wf_pc \in {TRANSFORM, "done"}
          /\ wf_pc = TRANSFORM =>
                ENABLED WfFinish /\ ~ENABLED WfStartUpload
    /\ starts[UPLOAD] > 0 =>
          /\ stage[TRANSFORM] = "returned"
          /\ transform_stats # Null
          /\ transform_stats.total_record_count > 0

\* The run is done after a transform whose records all failed to normalize.
C4_Witness ==
    /\ wf_pc = "done"
    /\ stage[TRANSFORM] = "returned" /\ transform_stats = Null
    /\ StagedNow.error = "none" /\ Len(StagedNow.rows) > 0
    /\ NormalizedNow = <<>>
    /\ starts[UPLOAD] = 0

\* C5: fetch_repositories is started only after preflight_check returned
\* normally; when preflight_check raised, none of fetch_repositories,
\* transform_data and upload_to_atlan is ever started and the run can only
\* fail.
C5_NoFetchWithoutPreflight ==
    /\ starts[FETCH] > 0 => stage[PREFLIGHT] = "returned"
    /\ stage[PREFLIGHT] = "raised" =>
          /\ starts[FETCH] = 0 /\ starts[TRANSFORM] = 0 /\ starts[UPLOAD] = 0
          /\ wf_pc \in {PREFLIGHT, "failed"}
          /\ wf_pc = PREFLIGHT =>
                ENABLED WfActivityFailed /\ ~ENABLED WfStartFetch

\* The run failed at the preflight check of an owner that does not exist.
C5_Witness ==
    /\ wf_pc = "failed"
    /\ stage[PREFLIGHT] = "raised"
    /\ last_error = Error(PREFLIGHT, "ConnectionError", <<>>)
    /\ starts[FETCH] = 0

\* C6: the run starts its stages in the order get_workflow_args,
\* preflight_check, fetch_repositories, transform_data, upload_to_atlan, each
\* at most once and only after the stage before it returned normally, and at
\* most one stage is in progress at any moment.
C6_StagesInOrder ==
    /\ \A s \in ActivityNames : starts[s] <= 1
    /\ \A s \in ActivityNames : starts[s] = 0 <=> stage[s] = "idle"
    /\ \A i \in 2..Len(Activities) :
          starts[Activities[i]] > 0 => stage[Activities[i - 1]] = "returned"
    /\ Cardinality({s \in ActivityNames : stage[s] = "running"}) <= 1
    /\ act_pc # "idle" <=> \E s \in ActivityNames : stage[s] = "running"

\* The last stage is in progress, the four before it have returned.
C6_Witness ==
    /\ stage[UPLOAD] = "running"
    /\ \A i \in 1..4 : stage[Activities[i]] = "returned"

-----------------------------------------------------------------------------
(* Properties of the paginated fetch *)

\* get_paginated_results has returned its list to fetch_repositories.
PaginationReturned == act_pc = "fetch_flatten" /\ requested # <<>>

SomePageFailed == \E i \in 1..Len(responses) : PageFailed(responses[i])

\* C7: the paginated fetch raises whenever a page request gets a non-success
\* status or no response; it never returns normally after such a page.
C7_PageFailureRaises == ~(PaginationReturned /\ SomePageFailed)

RECURSIVE ConcatItems(_)
ConcatItems(rs) ==
    IF rs = <<>> THEN <<>>
    ELSE ConcatItems(SubSeq(rs, 1, Len(rs) - 1)) \o rs[Len(rs)].items

\* C8: while every page request succeeds, the requests made are the
\* repositories URL of the owner followed by the URL of each response's next
\* link, one request per response; the fetch goes on while the latest
\* response has a next link, returns at the first response without one, and
\* what it has accumulated, and returns, is the concatenation of the pages'
\* items in page order.
C8_FollowsNextLinks ==
    (act_pc \in {"fetch_page", "fetch_flatten"} /\ ~SomePageFailed) =>
        LET n == Len(responses)
        IN  /\ Len(requested) = n
            /\ http_calls = 1 + n
            /\ n >= 1 => requested[1] = RepositoriesUrl(OwnerOf(workflow_args))
            /\ \A i \in 1..(n - 1) :
                  /\ responses[i].next # Null
                  /\ requested[i + 1] = responses[i].next
            /\ act_pc = "fetch_page" =>
                  /\ all_results = ConcatItems(responses)
                  /\ n >= 1 => url = responses[n].next /\ url # Null
            /\ act_pc = "fetch_flatten" =>
                  /\ n >= 1 /\ responses[n].next = Null
                  /\ raw_data_list = ConcatItems(responses)

\* Three pages were fetched, all with success, and their items returned.
C8_Witness ==
    /\ PaginationReturned /\ ~SomePageFailed
    /\ Len(responses) = 3
    /\ \A i \in 1..3 : responses[i].items # <<>>
    /\ Len(raw_data_list) >= 3

-----------------------------------------------------------------------------
(* Properties of the flatten step *)

\* The record's 'owner' is a nested object that holds a 'login'.
HasOwnerLogin(repo) ==
    Has(repo, "owner") /\ IsDict(repo["owner"]) /\ Has(repo["owner"].d, "login")

\* The flatten loop of fetch_repositories runs in this step.
FlattenStep == act_pc = "fetch_flatten" /\ raw_data_list # <<>>

\* C9: for a raw record whose 'owner' is a nested object holding a 'login',
\* the flattened record has owner_login equal to that login and no 'owner'
\* key, every other field is as in the raw record, and the raw record itself
\* is not changed by the step.
C9_FlattenProjectsLogin ==
    [][FlattenStep =>
         /\ Len(flattened_data') = Len(raw_data_list)
         /\ \A i \in 1..Len(raw_data_list) :
               HasOwnerLogin(raw_data_list[i]) =>
                 /\ flattened_data'[i]["owner_login"] =
                        raw_data_list[i]["owner"].d["login"]
                 /\ ~Has(flattened_data'[i], "owner")
                 /\ \A k \in RepoKeys \ {"owner", "owner_login"} :
                       flattened_data'[i][k] = raw_data_list[i][k]
                 /\ raw_data_list'[i] = raw_data_list[i]]_vars

\* A record with an owner object was flattened to that owner's login.
C9_Witness ==
    /\ act_pc = "fetch_write"
    /\ \E i \in 1..Len(raw_data_list) :
          /\ HasOwnerLogin(raw_data_list[i])
          /\ raw_data_list[i]["owner_login"] = Str("stale")
          /\ flattened_data[i]["owner_login"] = Str("hubot")

\* C10: for a raw record whose 'owner' is missing, is not a nested object, or
\* is an object without 'login', the flatten step does not raise and gives a
\* record with owner_login null and no 'owner' key.
C10_FlattenWithoutLogin ==
    [][FlattenStep =>
         /\ act_pc' = "fetch_write"
         /\ stage'[FETCH] = "running"
         /\ Len(flattened_data') = Len(raw_data_list)
         /\ \A i \in 1..Len(raw_data_list) :
               ~HasOwnerLogin(raw_data_list[i]) =>
                 /\ flattened_data'[i]["owner_login"] = Null
                 /\ ~Has(flattened_data'[i], "owner")]_vars

\* A record with a malformed owner was flattened to a null owner_login.
C10_Witness ==
    /\ act_pc = "fetch_write"
    /\ \E i \in 1..Len(raw_data_list) :
          /\ raw_data_list[i]["owner"] = Str("octocat")
          /\ flattened_data[i]["owner_login"] = Null
          /\ ~Has(flattened_data[i], "owner")

-----------------------------------------------------------------------------
(* Properties of the preflight check *)

\* preflight_check has ended and no later request has been made.
PreflightEnded ==
    stage[PREFLIGHT] \in {"returned", "raised"} /\ starts[FETCH] = 0

\* C15: preflight_check raises a configuration error (ValueError) without
\* making any request when the configured owner is absent or empty; with an
\* owner it makes one request, for that owner, and raises a not-found error
\* (ConnectionError) when the answer is missing or not a 200; it returns its
\* success status only when the owner is present and the answer was a 200.
C15_PreflightOutcomes ==
    PreflightEnded =>
        LET owner == OwnerOf(workflow_args)
        IN  /\ ~Truthy(owner) =>
                  /\ stage[PREFLIGHT] = "raised"
                  /\ last_error = Error(PREFLIGHT, "ValueError", <<>>)
                  /\ http_calls = 0 /\ requested = <<>>
            /\ Truthy(owner) =>
                  /\ http_calls = 1
                  /\ requested = <<OwnerUrl(owner)>>
                  /\ Len(responses) = 1
                  /\ IF responses[1].status = 200
                       THEN stage[PREFLIGHT] = "returned"
                       ELSE /\ stage[PREFLIGHT] = "raised"
                            /\ last_error =
                                   Error(PREFLIGHT, "ConnectionError", <<>>)
            /\ stage[PREFLIGHT] = "returned" =>
                  Truthy(owner) /\ responses = <<[NoResponse EXCEPT !.status = 200]>>

\* The owner was configured and the request for it was answered with a 404.
C15_Witness ==
    /\ PreflightEnded
    /\ Truthy(OwnerOf(workflow_args))
    /\ http_calls = 1
    /\ responses = <<[NoResponse EXCEPT !.status = 404]>>
    /\ last_error = Error(PREFLIGHT, "ConnectionError", <<>>)

-----------------------------------------------------------------------------
(* Properties of the configuration get_workflow_args returns *)

\* get_workflow_args has returned to the run, which has not moved on yet.
GwaReturned == wf_pc = GWA /\ stage[GWA] = "returned"

AugmentedKeys == {"workflow_id", "workflow_run_id", "output_prefix", "output_path"}

\* C19: when the stored configuration is not found on the first k reads and
\* is there on read k+1, with k from 0 to 4, get_workflow_args returns on
\* attempt k+1 after k sleeps and reads no more; what it returns is the
\* stored configuration with workflow_id, workflow_run_id, output_prefix (the
\* stored one, or the default when none is stored) and an output_path under
\* that output_prefix; a 5th read that is "not found" makes the activity
\* raise.
C19_ResolvesAfterNotFound ==
    /\ GwaReturned =>
          LET k == sleeps
              stored == last_read.stored
          IN  /\ last_read.outcome = "returned"
              /\ k \in 0..4 /\ reads = k + 1 /\ attempt = k
              /\ act_pc = "idle"
              /\ workflow_args["workflow_id"] =
                     (IF workflow_config.workflow_id = Absent
                        THEN EngineWorkflowId ELSE workflow_config.workflow_id)
              /\ workflow_args["workflow_run_id"] = EngineRunId
              /\ workflow_args["output_prefix"] =
                     (IF stored["output_prefix"] = Absent
                        THEN TEMPORARY_PATH ELSE stored["output_prefix"])
              /\ IsUnder(workflow_args["output_path"],
                         workflow_args["output_prefix"])
              /\ \A key \in DOMAIN stored \ AugmentedKeys :
                    workflow_args[key] = stored[key]
    /\ (reads = 5 /\ last_read.outcome = "raised") => stage[GWA] = "raised"

\* The configuration was found on the 5th read, with no output_prefix stored.
C19_Witness ==
    /\ GwaReturned
    /\ reads = 5 /\ sleeps = 4
    /\ last_read.stored["output_prefix"] = Absent
    /\ workflow_args["output_prefix"] = TEMPORARY_PATH
    /\ workflow_args["metadata"] = Metadata(Str("octocat"))

-----------------------------------------------------------------------------
(* Properties of a run whose fetch met a failed page *)

\* C20: a run in which a page request of the fetch got a non-success status
\* or no response never finishes successfully and never starts
\* transform_data or upload_to_atlan.
C20_FailedPageFailsRun ==
    page_failed =>
        /\ wf_pc # "done"
        /\ starts[TRANSFORM] = 0 /\ starts[UPLOAD] = 0

-----------------------------------------------------------------------------
(* Properties of the upload *)

\* upload_to_atlan has ended after the migration reported a result.
UploadEnded == stage[UPLOAD] \in {"returned", "raised"} /\ upload_stats # Null

\* C14: whenever the migration result reports at least one failed item,
\* upload_to_atlan raises an error that carries the number of failed items,
\* however many items were migrated; it returns statistics, whose record
\* count is the number of migrated files, only when no item failed.
C14_PublishFailsOnAnyFailure ==
    UploadEnded =>
        /\ upload_stats.failed_migrations > 0 =>
              /\ stage[UPLOAD] = "raised"
              /\ last_error = Error(UPLOAD, "ActivityError",
                                    <<upload_stats.failed_migrations>>)
              /\ upload_result = Null
              /\ wf_pc \in {UPLOAD, "failed"}
        /\ stage[UPLOAD] = "returned" =>
              /\ upload_stats.failed_migrations = 0
              /\ upload_stats.failures = <<>>
              /\ upload_result.total_record_count = upload_stats.migrated_files

\* One item failed while another was migrated, and the upload raised.
C14_Witness ==
    /\ UploadEnded
    /\ upload_stats.failed_migrations = 1
    /\ upload_stats.migrated_files >= 1
    /\ stage[UPLOAD] = "raised"
    /\ last_error = Error(UPLOAD, "ActivityError", <<1>>)

-----------------------------------------------------------------------------
(* Properties of the staged dataset *)

\* How often x occurs in seq.
Count(seq, x) == Cardinality({i \in 1..Len(seq) : seq[i] = x})

\* The two sequences hold the same elements, each as often.
SameBag(a, b) ==
    /\ Len(a) = Len(b)
    /\ \A i \in 1..Len(a) : Count(a, a[i]) = Count(b, a[i])

\* transform_data, started on the path a successful fetch returned, is done
\* with reading the staged dataset.
StageWasRead ==
    /\ stage[FETCH] = "returned" /\ fetch_result # Null
    /\ starts[TRANSFORM] = 1 /\ act_pc # "transform"

\* C12: whenever fetch_repositories returned a result, what transform_data
\* then reads from the returned path is, as a multiset, the flattened records
\* the fetch wrote, on the primary and on the alternative write path alike;
\* the read never meets a partial or zero-byte file.
C12_TransformReadsWhatFetchWrote ==
    StageWasRead =>
        /\ ~(stage[TRANSFORM] = "raised"
               /\ last_error.kind \in {"ReadError", "FileNotFoundError",
                                       "ValueError"})
        /\ SameBag(transform_kwargs.dataframe, ToColumnar(flattened_data))

-----------------------------------------------------------------------------
(* Properties of repeated fetches into one output_path *)

\* The latest invocation of fetch_repositories is past its cleanup.
PastCleanup == starts[FETCH] >= 1 /\ act_pc # "fetch_entry"

-----------------------------------------------------------------------------
(* Properties of transform_data's read of the staging location *)

\* transform_data is done with reading the staging location.
ReadDone == starts[TRANSFORM] = 1 /\ act_pc # "transform"

\* transform_data has neither normalized anything nor written any output.
NothingTransformed ==
    transform_kwargs = NoKwargs /\ entities = <<>> /\ transform_stats = Null

\* C13: transform_data raises a not-found error (FileNotFoundError), without
\* normalizing or writing anything, when the staging directory it is handed
\* does not exist or holds no data file; when it is handed no staging path at
\* all it raises (ValueError) before it looks at the disk.
C13_MissingStageIsNotFound ==
    ReadDone =>
        LET path == GetOrNone(workflow_args, "local_parquet_path")
            dir_there ==
                dir_exists /\ path = RawDataPath(workflow_args["output_path"])
            no_file == \A f \in DOMAIN files : files[f] = NoFile
        IN  /\ (Truthy(path) /\ (~dir_there \/ no_file)) =>
                  /\ stage[TRANSFORM] = "raised"
                  /\ last_error = Error(TRANSFORM, "FileNotFoundError", <<>>)
                  /\ NothingTransformed
            /\ ~Truthy(path) =>
                  /\ stage[TRANSFORM] = "raised"
                  /\ last_error = Error(TRANSFORM, "ValueError", <<>>)
                  /\ NothingTransformed

\* The staging directory exists and holds no file; transform_data raised.
C13_Witness ==
    /\ ReadDone
    /\ dir_exists /\ files = EmptyDir
    /\ workflow_args["local_parquet_path"] =
           RawDataPath(workflow_args["output_path"])
    /\ last_error = Error(TRANSFORM, "FileNotFoundError", <<>>)

-----------------------------------------------------------------------------
(* Properties of the normalization *)

\* The normalization of the dataframe runs in this step.
NormalizeStep == act_pc = "transform_normalize"

\* The type name is REPOSITORY in some letter case.
Recognized(typename) == typename \in {"REPOSITORY", "Repository", "repository"}

\* The attribute mapping of the row does not raise: the row has a non-empty
\* full_name and its 'owner', when it has one, is an object.
Mappable(row) ==
    /\ row["full_name"].t = "str" /\ row["full_name"].s # ""
    /\ row["owner"].t \in {"absent", "dict"}

\* The rows of the batch that normalize to an entity.
GoodRows(kwargs) ==
    IF Recognized(kwargs.typename) THEN SelectSeq(kwargs.dataframe, Mappable)
    ELSE <<>>

\* C16: a row normalized under a type name that is not recognized, or whose
\* attribute mapping raises, lets no exception out of transform_row: the
\* normalization step fails only when writing its output fails, the row is
\* skipped, and every other row of the batch still becomes an entity, in
\* order.
C16_BadRowsAreSkipped ==
    [][NormalizeStep =>
         LET good == GoodRows(transform_kwargs)
         IN  /\ stage'[TRANSFORM] = "raised" =>
                    last_error'.kind = "WriteError" /\ good # <<>>
             /\ good = <<>> =>
                    /\ stage'[TRANSFORM] = "returned"
                    /\ transform_stats' = Null /\ entities' = <<>>
             /\ (stage'[TRANSFORM] = "returned" /\ good # <<>>) =>
                    /\ Len(entities') = Len(good)
                    /\ \A i \in 1..Len(good) :
                          /\ entities'[i].typeName = "Resource"
                          /\ entities'[i].attributes.name = good[i]["name"]]_vars

\* A row without full_name was skipped and the row after it normalized.
C16_Witness ==
    /\ stage[TRANSFORM] = "returned"
    /\ Len(transform_kwargs.dataframe) = 2
    /\ ~Mappable(transform_kwargs.dataframe[1])
    /\ Mappable(transform_kwargs.dataframe[2])
    /\ Len(entities) = 1
    /\ entities[1].attributes.name = transform_kwargs.dataframe[2]["name"]

\* transform_data returned the entities of the batch.
Normalized == stage[TRANSFORM] = "returned" /\ entities # <<>>

\* connection_qualified_name, or its default
ConnectionOf(kwargs) ==
    IF kwargs.connection.connection_qualified_name = Null
      THEN Path(<<"default", "github", "connection">>)
      ELSE kwargs.connection.connection_qualified_name

\* C17: the qualifiedName of an entity is the connection qualified name
\* followed by the row's full_name and nothing else: the workflow id, the run
\* id and the row's other fields have no part in it; it lies under the
\* connection, and two rows of one batch have the same qualifiedName exactly
\* when they have the same full_name.
C17_QualifiedNameDeterministic ==
    Normalized =>
        LET good == GoodRows(transform_kwargs)
            connection == ConnectionOf(transform_kwargs)
            qn(i) == entities[i].attributes.qualifiedName
        IN  /\ Len(entities) = Len(good)
            /\ \A i \in 1..Len(good) :
                  /\ qn(i) = Path(connection.p \o <<good[i]["full_name"].s>>)
                  /\ IsUnder(qn(i), connection)
            /\ \A i, j \in 1..Len(good) :
                  (good[i]["full_name"] = good[j]["full_name"])
                      <=> (qn(i) = qn(j))

\* Two rows with one full_name and different other fields were normalized
\* under a named connection, in a run with ids of its own, to one
\* qualifiedName.
C17_Witness ==
    /\ Normalized
    /\ Len(entities) = 2
    /\ transform_kwargs.dataframe[1]["name"] # transform_kwargs.dataframe[2]["name"]
    /\ entities[1].attributes.qualifiedName =
           Path(<<"default", "github", "prod", "octocat/hello">>)
    /\ entities[2].attributes.qualifiedName = entities[1].attributes.qualifiedName
    /\ entities[1].attributes.lastSyncWorkflowName = Str("wf-cfg")
    /\ entities[1].attributes.lastSyncRun = Str("run-2")

-----------------------------------------------------------------------------
(* Properties of the load of credentials *)

\* GitHubHandler.load has called GitHubClient.load.
ClientReached == client_credentials # Absent

\* GitHubHandler.load has ended, by itself or with the client's load.
LoadEnded == act_pc = "idle" /\ handler_config # NoConfig

\* C18: GitHubClient.load raises a configuration error (ValueError) when its
\* credentials hold no token or an empty one, leaving the headers as they
\* were; with a token it sets Authorization to "Bearer " followed by exactly
\* that token. GitHubHandler.load hands the client the top level of its
\* config when that has a 'token' key, else the config's 'credentials' entry,
\* and only when that is a non-empty mapping; otherwise it raises without
\* calling the client.
C18_LoadOutcomes ==
    /\ [](ClientReached =>
            /\ client_credentials =
                   (IF handler_config.token # Absent
                      THEN Dict(handler_config)
                      ELSE handler_config.credentials)
            /\ client_credentials.t = "dict"
            /\ \E k \in DOMAIN client_credentials.d :
                  client_credentials.d[k] # Absent)
    /\ []((LoadEnded /\ ~ClientReached) =>
            /\ last_error = Error("GitHubHandler.load", "ValueError", <<>>)
            /\ handler_config.token = Absent
            /\ handler_config.credentials
                   \in {Absent, Null, Credentials(Absent, Absent)})
    /\ [][act_pc = "handler_load" => http_headers' = http_headers]_vars
    /\ [][act_pc = "client_load" =>
            LET token == client_credentials.d["token"]
            IN  IF token.t = "str" /\ token.s # ""
                  THEN /\ http_headers'.Authorization =
                              Text(<<"Bearer", " ", token.s>>)
                       /\ last_error' = NoError
                  ELSE /\ http_headers' = http_headers
                       /\ last_error' =
                              Error("GitHubClient.load", "ValueError", <<>>)]_vars

\* The config had an empty token at its top level: the client was reached
\* with the config, raised, and the headers of the earlier load are still
\* there.
C18_Witness ==
    /\ LoadEnded
    /\ handler_config.token = Str("")
    /\ client_credentials = Dict(handler_config)
    /\ last_error = Error("GitHubClient.load", "ValueError", <<>>)
    /\ http_headers = Headers(Str("ghp_old"))

-----------------------------------------------------------------------------
(* Properties of the stage write of fetch_repositories *)

\* fetch_repositories has been through its write of repositories.parquet and
\* that write failed: it raised, or left no file, or left a file that is not
\* a whole dataset.
PrimaryWriteFailed ==
    /\ stage[FETCH] \in {"returned", "raised"}
    /\ dir_exists
    /\ files[PrimaryFile].kind # "parquet"

\* C22: a failure to write the stage file is fatal to fetch_repositories:
\* whenever the write of the staged dataset raised, produced no file or
\* produced a zero-byte file, the activity ends with an error and returns no
\* (stats, path) result, and no other write has put the dataset on disk.
C22_WriteFailureIsFatal ==
    PrimaryWriteFailed =>
        /\ stage[FETCH] = "raised"
        /\ fetch_result = Null
        /\ written_by[AlternativeFile] = 0

-----------------------------------------------------------------------------
(* Properties of the staged records *)

\* No field of the record is a nested mapping.
IsFlat(record) == \A k \in DOMAIN record : ~IsDict(record[k])

\* C21: every flattened record that fetch_repositories stages has only
\* scalar or primitive-list fields: whatever nested objects the raw record
\* holds, under 'owner' or under any other field, no field of the
\* flattened record is a nested mapping.
C21_FlatRecordsHoldNoMapping ==
    \A i \in 1..Len(flattened_data) : IsFlat(flattened_data[i])

-----------------------------------------------------------------------------
(* Properties of the entities a run produces *)

\* The raw records of the run the entity was made from: those whose
\* full_name gives the entity's qualified name.
SourcesOf(entity) ==
    {r \in {raw_data_list[i] : i \in 1..Len(raw_data_list)} :
        build_atlas_qualified_name(
            entity.attributes.connectionQualifiedName,
            Get(r, "full_name", Str(""))) = entity.attributes.qualifiedName}

\* The source field of each counter and of each flag among the extension
\* attributes.
CounterFields ==
    [github_stargazers_count |-> "stargazers_count",
     github_watchers_count |-> "watchers_count",
     github_forks_count |-> "forks_count",
     github_open_issues_count |-> "open_issues_count"]
FlagFields == [github_is_private |-> "private", github_is_fork |-> "fork"]

\* C23: in every entity produced from a repository record, a numeric counter
\* (stargazers, watchers, forks, open issues) whose source field is missing
\* is 0 and a boolean flag (private, fork) whose source field is missing is
\* false, and no counter or flag of any produced entity is null.
C23_MissingCountersDefault ==
    \A i \in 1..Len(entities) :
        LET custom == entities[i].customAttributes
        IN  /\ \A k \in DOMAIN CounterFields :
                 /\ custom[k] # Null
                 /\ \A r \in SourcesOf(entities[i]) :
                       ~Has(r, CounterFields[k]) => custom[k] = IntVal(0)
            /\ \A k \in DOMAIN FlagFields :
                 /\ custom[k] # Null
                 /\ \A r \in SourcesOf(entities[i]) :
                       ~Has(r, FlagFields[k]) => custom[k] = Bool(FALSE)

\* C28: for every source record that passes through the flatten step and
\* then the normalization, the github_owner extension attribute of the
\* resulting entity equals the login of the record's owner object whenever
\* the raw record had one.
C28_OwnerLoginSurvives ==
    \A i \in 1..Len(entities) :
        \A r \in SourcesOf(entities[i]) :
            HasOwnerLogin(r) =>
                entities[i].customAttributes.github_owner
                    = r["owner"].d["login"]

\* The value holds only characters of the ASCII subset.
IsSafeText(v) ==
    CASE v.t = "text" -> \A i \in 1..Len(v.cs) : v.cs[i] \notin NonAsciiChars
      [] v.t = "path" -> \A i \in 1..Len(v.p) : v.p[i] \notin NonAsciiChars
      [] OTHER -> TRUE

\* The texts the records of the run hold in the fields the core attributes
\* are made from.
SourceTexts ==
    {raw_data_list[i][k] :
        i \in 1..Len(raw_data_list),
        k \in {"name", "description", "html_url"}}

\* C24: every core text attribute of every produced entity (name,
\* qualifiedName, sourceUrl, description) holds only characters of the ASCII
\* subset; the sanitizing strips the other characters of the source text,
\* passes null and empty values through unchanged, and changes nothing in a
\* text that is already sanitized.
C24_CoreTextsAreSafe ==
    /\ \A i \in 1..Len(entities) :
          \A k \in {"name", "qualifiedName", "sourceUrl", "description"} :
              IsSafeText(entities[i].attributes[k])
    /\ \A text \in SourceTexts \cup {Null, Text(<<>>)} :
          /\ IsSafeText(clean_text(text))
          /\ ~Truthy(text) => clean_text(text) = text
          /\ clean_text(clean_text(text)) = clean_text(text)

-----------------------------------------------------------------------------
(* Properties of the run's configuration *)

\* get_workflow_args has returned the run's configuration.
Resolved == stage[GWA] = "returned"

\* The step of run() that starts transform_data.
TransformStarts == wf_pc = FETCH /\ wf_pc' = TRANSFORM

\* C26: after get_workflow_args returned, the run's configuration is only
\* appended to: through preflight, fetch, transform and publish the keys
\* workflow_id, workflow_run_id, output_prefix, output_path and metadata keep
\* the values get_workflow_args produced, the only key added is
\* local_parquet_path, set to the path fetch_repositories returned, when
\* transform_data is started; so the prefix upload_to_atlan migrates from is
\* derived from the output_path transform_data wrote its output under.
C26_ConfigIsOnlyAppendedTo ==
    /\ [][Resolved =>
            \/ workflow_args' = workflow_args
            \/ /\ TransformStarts
               /\ ~Has(workflow_args, "local_parquet_path")
               /\ workflow_args' =
                      SetKey(workflow_args, "local_parquet_path",
                             fetch_result.d["local_path"])]_vars
    /\ [](transformed_output # Null =>
            /\ transformed_output.output_path = workflow_args["output_path"]
            /\ transformed_output.output_prefix
                   = workflow_args["output_prefix"])
    /\ [](migration_prefix # Null =>
            /\ transformed_output # Null
            /\ migration_prefix =
                   get_object_store_prefix(transformed_output.output_path))

\* The run went through all stages: the path of the fetch was added to the
\* configuration, the entities were written and the publish migrated them.
C26_Witness ==
    /\ stage[UPLOAD] = "returned"
    /\ workflow_args["local_parquet_path"] = fetch_result.d["local_path"]
    /\ migration_prefix = Path(<<"artifacts", "wf-cfg", "run-1">>)
    /\ transformed_output.output_path
           = Path(<<"local", "tmp", "artifacts", "wf-cfg", "run-1">>)

-----------------------------------------------------------------------------
(* Termination of the run *)

\* run() has returned or an exception has left it.
Terminated == wf_pc \in {"done", "failed"}

\* C27: every run eventually reaches a terminal state (success after the
\* publish, success at a short-circuit, or failure at the first failing
\* stage) provided each collaborator call returns: the retry loop of
\* get_workflow_args ends after at most 5 attempts and the pagination loop of
\* the fetch ends after finitely many page requests, whatever the server
\* answers.
C27_EveryRunTerminates ==
    /\ [](reads <= max_retries)
    /\ <>Terminated

-----------------------------------------------------------------------------
(* Properties of concurrent runs *)

\* The staging directory and the publish prefix of a run.
OwnDir(r) == RawDataPath(RunOutputPath(runs[r]))
OwnPrefix(r) == get_object_store_prefix(RunOutputPath(runs[r]))

\* What the normalization gives for the rows the run staged.
OwnEntities(r) ==
    LET kwargs == TransformKwargs(runs[r].workflow_args, runs[r].rows)
    IN  transform_metadata(kwargs.typename, kwargs.dataframe,
                           kwargs.workflow_id, kwargs.workflow_run_id,
                           kwargs.connection)

\* C25: for two runs executing concurrently with disjoint output paths,
\* under every interleaving of their stages, the staged dataset and the
\* publish prefix of each run hold exactly that run's own records; the
\* clear-before-write step of a run never deletes or alters anything under
\* the other run's output path; and a run sleeping between two attempts of
\* get_workflow_args does not keep the other run from taking its next step.
C25_ConcurrentRunsDoNotClobber ==
    /\ [](\A r \in Runs :
            /\ runs[r].rows # <<>> =>
                  tree[OwnDir(r)] = StagedBy(runs[r].rows, r)
            /\ runs[r].entities # <<>> =>
                  /\ runs[r].entities = OwnEntities(r)
                  /\ object_store[OwnPrefix(r)] =
                         [entities |-> runs[r].entities, by |-> r])
    /\ [][\A r \in Runs : runs'[r] # runs[r] =>
            \A q \in Runs \ {r} :
                /\ \A d \in Dirs :
                      IsUnder(d, RunOutputPath(runs[q])) => tree'[d] = tree[d]
                /\ object_store'[OwnPrefix(q)] = object_store[OwnPrefix(q)]]_vars
    /\ [](\A r \in Runs : \A q \in Runs \ {r} :
            (runs[q].pc = "sleeping" /\ runs[r].pc \notin {"done", "failed"})
                => ENABLED RunNext(r))

\* The second run has cleared the output of an earlier run, staged and
\* published its records and is done while the first run, under the same
\* output prefix, sleeps before its last attempt to resolve its
\* configuration; the output of another earlier run is still on the disk.
C25_Witness ==
    /\ runs[1].pc = "sleeping" /\ runs[1].attempt = max_retries - 2
    /\ runs[2].pc = "done"
    /\ runs[2].rows # <<>> /\ runs[2].entities # <<>>
    /\ runs[1].stored = runs[2].stored
    /\ tree[OwnDir(2)].by = 2
    /\ tree[OwnDir(1)] = Stale
    /\ object_store[OwnPrefix(2)].by = 2

====
